---------------------------- MODULE Spec2Model ----------------------------
(***************************************************************************)
(* Response evaluation and analytics engine of the questionnaire platform: *)
(* the Response model's calculateScore / calculateGrade /                  *)
(* performQualityChecks and the Analytics model's generateReport.          *)
(*                                                                         *)
(* JavaScript values are modelled by tagged records so that values of      *)
(* different JavaScript types can be compared.  A JavaScript string is a   *)
(* sequence of one-character strings; a Number that may be undefined is a  *)
(* record [has, n].  Scores and times are integers.                        *)
(***************************************************************************)
EXTENDS Integers, Sequences, FiniteSets, TLC

VARIABLES
    questionnaire,   \* the Questionnaire document handed to the methods
    response,        \* one Response document (answers, metadata, progress, scoring, qualityChecks)
    responses,       \* the stored Response documents of the report's date range
    analytics,       \* the Analytics document (the aggregate report)
    db,              \* the stored documents of the other collections
    outcome,         \* the value returned by the last call that returns one
    lastCall         \* history: the method that ran last

vars == <<questionnaire, response, responses, analytics, db, outcome, lastCall>>

-----------------------------------------------------------------------------
(* JavaScript values *)

\* answer: Mixed -- null, a string, an array of strings, or a number
Null == [kind |-> "null", chars |-> <<>>, items |-> <<>>, n |-> 0]
Str(s) == [kind |-> "string", chars |-> s, items |-> <<>>, n |-> 0]
Arr(xs) == [kind |-> "array", chars |-> <<>>, items |-> xs, n |-> 0]
Num(n) == [kind |-> "number", chars |-> <<>>, items |-> <<>>, n |-> n]

\* a Number field that may be undefined
Undefined == [has |-> FALSE, n |-> 0]
Number(n) == [has |-> TRUE, n |-> n]

\* a String field that may be undefined
NoString == [has |-> FALSE, chars |-> <<>>]
String(s) == [has |-> TRUE, chars |-> s]

\* truthiness of a Number field: undefined and 0 are falsy
TruthyNumber(x) == x.has /\ x.n # 0

\* truthiness of a String field: undefined and "" are falsy
TruthyString(x) == x.has /\ x.chars # <<>>

\* truthiness of an answer value: null, "" and 0 are falsy, every array is
\* truthy
TruthyValue(v) ==
    CASE v.kind = "null" -> FALSE
      [] v.kind = "string" -> v.chars # <<>>
      [] v.kind = "number" -> v.n # 0
      [] OTHER -> TRUE

DigitAt == <<"0", "1", "2", "3", "4", "5", "6", "7", "8", "9">>

RECURSIVE NatToString(_)
\* the decimal digits of a natural number
NatToString(n) ==
    IF n < 10 THEN <<DigitAt[n + 1]>>
    ELSE NatToString(n \div 10) \o <<DigitAt[(n % 10) + 1]>>

\* String(n) for an integer n
NumberToString(n) == IF n < 0 THEN <<"-">> \o NatToString(-n) ELSE NatToString(n)

RECURSIVE Concat(_)
\* the concatenation of a sequence of strings
Concat(ss) == IF ss = <<>> THEN <<>> ELSE Head(ss) \o Concat(Tail(ss))

RECURSIVE JoinWith(_, _)
\* Array.prototype.join of an array of strings with a separator
JoinWith(ss, sep) ==
    IF ss = <<>> THEN <<>>
    ELSE IF Len(ss) = 1 THEN Head(ss)
    ELSE Head(ss) \o sep \o JoinWith(Tail(ss), sep)

\* the string Array.prototype.join makes of one element: null gives "", an
\* array gives its elements joined by ",", a number its digits
ToJoinString(v) ==
    CASE v.kind = "null" -> <<>>
      [] v.kind = "string" -> v.chars
      [] v.kind = "number" -> NumberToString(v.n)
      [] OTHER -> JoinWith(v.items, <<",">>)

\* Math.round(a / b) for b > 0: the nearest integer, halves going up
MathRound(a, b) == (2 * a + b) \div (2 * b)

UpperCase == <<"A","B","C","D","E","F","G","H","I","J","K","L","M",
               "N","O","P","Q","R","S","T","U","V","W","X","Y","Z">>
LowerCase == <<"a","b","c","d","e","f","g","h","i","j","k","l","m",
               "n","o","p","q","r","s","t","u","v","w","x","y","z">>

ToLowerChar(c) ==
    IF \E i \in 1..Len(UpperCase) : UpperCase[i] = c
    THEN LowerCase[CHOOSE i \in 1..Len(UpperCase) : UpperCase[i] = c]
    ELSE c

\* String.prototype.toLowerCase
ToLowerCase(s) == [i \in 1..Len(s) |-> ToLowerChar(s[i])]

\* String.prototype.includes
Includes(s, sub) ==
    \E i \in 0..(Len(s) - Len(sub)) :
        \A j \in 1..Len(sub) : s[i + j] = sub[j]

\* the characters the regular expression atom . does not match (U+2028 and
\* U+2029, which it does not match either, are not written here)
LineTerminators == {"\n", "\r"}

-----------------------------------------------------------------------------
(* Response.performQualityChecks *)

SpeedThreshold == 5
PatternMinLength == 5

\* completionTime / totalQuestions < limit, for totalQuestions # 0
AvgBelow(t, n, limit) == IF n > 0 THEN t < limit * n ELSE t > limit * n

SpeedingFlag ==
    [type |-> "speeding", severity |-> "high",
     description |-> "Response completed too quickly"]
StraightLiningFlag ==
    [type |-> "straight_lining", severity |-> "medium",
     description |-> "Same answer pattern detected"]
BotFlag ==
    [type |-> "bot_detected", severity |-> "high",
     description |-> "Bot-like user agent detected"]

\* this.metadata.completionTime && this.progress.totalQuestions, then
\* avgTimePerQuestion < 5
IsSpeeding(r) ==
    /\ TruthyNumber(r.metadata.completionTime)
    /\ TruthyNumber(r.progress.totalQuestions)
    /\ AvgBelow(r.metadata.completionTime.n, r.progress.totalQuestions.n, SpeedThreshold)

\* this.answers.map(a => a.answer).join('')
AnswerPattern(r) ==
    Concat([i \in 1..Len(r.answers) |-> ToJoinString(r.answers[i].answer)])

\* /^(.)\1+$/.test(s): one character other than a line terminator, then
\* one or more copies of it, up to the end of the string
SameCharRegex(s) ==
    /\ Len(s) >= 2
    /\ s[1] \notin LineTerminators
    /\ \A i \in 2..Len(s) : s[i] = s[1]

\* a faulty variant: a pattern of exactly 5 characters is long enough
IsStraightLiningFromFive(r) ==
    /\ Len(AnswerPattern(r)) >= PatternMinLength
    /\ SameCharRegex(AnswerPattern(r))

IsStraightLining(r) ==
    /\ Len(AnswerPattern(r)) > PatternMinLength
    /\ SameCharRegex(AnswerPattern(r))

\* /bot|crawler|spider/i.test(s)
BotRegex(s) ==
    \/ Includes(ToLowerCase(s), <<"b","o","t">>)
    \/ Includes(ToLowerCase(s), <<"c","r","a","w","l","e","r">>)
    \/ Includes(ToLowerCase(s), <<"s","p","i","d","e","r">>)

IsBot(r) ==
    /\ TruthyString(r.metadata.userAgent)
    /\ BotRegex(r.metadata.userAgent.chars)

\* a faulty variant: any flag at all makes the response suspicious
SomeFlag(flags) == flags # <<>>

\* flags.some(f => f.severity === 'high')
SomeHigh(flags) == \E i \in 1..Len(flags) : flags[i].severity = "high"

\* a faulty variant: the flags of a run are appended to the stored list
performQualityChecksAppending(r) ==
    LET flags ==
            r.qualityChecks.flags
            \o (IF IsSpeeding(r) THEN <<SpeedingFlag>> ELSE <<>>)
            \o (IF IsStraightLining(r) THEN <<StraightLiningFlag>> ELSE <<>>)
            \o (IF IsBot(r) THEN <<BotFlag>> ELSE <<>>)
    IN [flags |-> flags, isSuspicious |-> SomeHigh(flags)]

\* the qualityChecks the method stores: the flag list and isSuspicious
performQualityChecks(r) ==
    LET flags ==
            (IF IsSpeeding(r) THEN <<SpeedingFlag>> ELSE <<>>)
            \o (IF IsStraightLining(r) THEN <<StraightLiningFlag>> ELSE <<>>)
            \o (IF IsBot(r) THEN <<BotFlag>> ELSE <<>>)
    IN [flags |-> flags, isSuspicious |-> SomeHigh(flags)]

PerformQualityChecks ==
    /\ response' = [response EXCEPT !.qualityChecks = performQualityChecks(response)]
    /\ lastCall' = "performQualityChecks"
    /\ UNCHANGED <<db, outcome, questionnaire, responses, analytics>>

-----------------------------------------------------------------------------
(* Response edits and save *)

\* a.answer !== null && a.answer !== undefined && a.answer !== ''
IsAnswered(a) == a.answer.kind # "null" /\ a.answer # Str(<<>>)

\* Math.round(a / b) for b # 0
RoundRatio(a, b) == IF b > 0 THEN MathRound(a, b) ELSE MathRound(-a, -b)

\* the pre('save') hook: completedQuestions is recounted, and the percentage
\* recomputed when totalQuestions is truthy
PreSave(r) ==
    LET completed == Len(SelectSeq(r.answers, IsAnswered))
    IN [r EXCEPT !.progress.completedQuestions = completed,
                 !.progress.percentage =
                     IF TruthyNumber(r.progress.totalQuestions)
                     THEN RoundRatio(100 * completed, r.progress.totalQuestions.n)
                     ELSE r.progress.percentage]

\* response.save(): the hook runs and the document replaces its stored copy
SaveResponse ==
    /\ response' = PreSave(response)
    /\ responses' = <<PreSave(response)>>
    /\ lastCall' = "save"
    /\ UNCHANGED <<db, outcome, questionnaire, analytics>>

\* progress.percentage: { min: 0, max: 100 }
ValidProgress(r) == r.progress.percentage \in 0..100

\* response.save() with the document's validation, which runs before the
\* pre('save') hook and so sees the percentage of before the hook; whether a
\* path left unmodified since the last save is validated again depends on the
\* path's state, so a value out of range may or may not reject the save
SaveValidated ==
    \/ SaveResponse
    \/ /\ ~ValidProgress(response)
       /\ lastCall' = "saveRejected"
       /\ UNCHANGED <<db, outcome, questionnaire, response, responses, analytics>>

\* a caller assigns the response's answers, completion time and user agent
EditResponse(answers, completionTime, userAgent) ==
    /\ response' = [response EXCEPT !.answers = answers,
                                    !.metadata.completionTime = completionTime,
                                    !.metadata.userAgent = userAgent]
    /\ response' # response
    /\ lastCall' = "edit"
    /\ UNCHANGED <<db, outcome, questionnaire, responses, analytics>>

-----------------------------------------------------------------------------
(* Response.calculateScore and Response.calculateGrade *)

\* questionnaire.questions.find(q => q.id === id): its index, 0 when none
FindQuestion(questions, id) ==
    LET found == {i \in 1..Len(questions) : questions[i].id = id}
    IN IF found = {} THEN 0 ELSE CHOOSE i \in found : \A j \in found : i <= j

\* question.options.find(opt => opt.score !== undefined): its index, 0 when none
FindCorrectOption(options) ==
    LET found == {i \in 1..Len(options) : options[i].score.has}
    IN IF found = {} THEN 0 ELSE CHOOSE i \in found : \A j \in found : i <= j

\* question.options.find(opt => opt.id === answer.answer): its index, 0 when none
FindSelectedOption(options, value) ==
    LET found == {i \in 1..Len(options) :
                     value.kind = "string" /\ options[i].id = value.chars}
    IN IF found = {} THEN 0 ELSE CHOOSE i \in found : \A j \in found : i <= j

\* one round of this.answers.forEach: the totals after the answer
ScoreAnswer(acc, answer, questions) ==
    LET qi == FindQuestion(questions, answer.questionId)
    IN IF qi = 0 THEN acc
       ELSE LET options == questions[qi].options
                ci == FindCorrectOption(options)
                si == FindSelectedOption(options, answer.answer)
            IN IF ci = 0 THEN acc
               ELSE IF si # 0 /\ options[si].score.has
               THEN [totalScore |-> acc.totalScore + options[si].score.n,
                     maxScore |-> acc.maxScore + options[ci].score.n,
                     questionScores |-> Append(acc.questionScores,
                         [questionId |-> answer.questionId,
                          score |-> options[si].score.n,
                          maxScore |-> options[ci].score.n,
                          isCorrect |-> options[si].score.n = options[ci].score.n])]
               ELSE [acc EXCEPT !.maxScore = acc.maxScore + options[ci].score.n]

RECURSIVE ScoreAnswers(_, _, _)
\* this.answers.forEach(...) from the totals acc
ScoreAnswers(acc, answers, questions) ==
    IF answers = <<>> THEN acc
    ELSE ScoreAnswers(ScoreAnswer(acc, Head(answers), questions), Tail(answers), questions)

GradeA == 90
GradeB == 80
GradeC == 70
GradeD == 60

\* (score / maxScore) * 100 >= limit, the percentage being 0 unless maxScore > 0
PercentageAtLeast(score, maxScore, limit) ==
    IF maxScore > 0 THEN 100 * score >= limit * maxScore ELSE 0 >= limit

calculateGrade(score, maxScore) ==
    IF PercentageAtLeast(score, maxScore, GradeA) THEN "A"
    ELSE IF PercentageAtLeast(score, maxScore, GradeB) THEN "B"
    ELSE IF PercentageAtLeast(score, maxScore, GradeC) THEN "C"
    ELSE IF PercentageAtLeast(score, maxScore, GradeD) THEN "D"
    ELSE "F"

\* a faulty variant: the percentage is truncated, not rounded
ScorePercentageFloor(totalScore, maxScore) ==
    IF maxScore > 0 THEN (100 * totalScore) \div maxScore ELSE 0

\* maxScore > 0 ? Math.round((totalScore / maxScore) * 100) : 0
ScorePercentage(totalScore, maxScore) ==
    IF maxScore > 0 THEN MathRound(100 * totalScore, maxScore) ELSE 0

\* totalScore >= maxScore * 0.6
ScorePassed(totalScore, maxScore) == 10 * totalScore >= 6 * maxScore

\* the scoring the method stores for a quiz
calculateScore(r, q) ==
    LET acc == ScoreAnswers([totalScore |-> 0, maxScore |-> 0, questionScores |-> <<>>],
                            r.answers, q.questions)
    IN [set |-> TRUE,
        totalScore |-> acc.totalScore,
        maxScore |-> acc.maxScore,
        percentage |-> ScorePercentage(acc.totalScore, acc.maxScore),
        grade |-> calculateGrade(acc.totalScore, acc.maxScore),
        passed |-> ScorePassed(acc.totalScore, acc.maxScore),
        questionScores |-> acc.questionScores]

CalculateScore ==
    /\ response' =
          IF ~questionnaire.exists \/ questionnaire.category # "quiz"
          THEN response
          ELSE [response EXCEPT !.scoring = calculateScore(response, questionnaire)]
    /\ lastCall' = "calculateScore"
    /\ UNCHANGED <<db, outcome, questionnaire, responses, analytics>>

-----------------------------------------------------------------------------
(* Analytics.generateReport *)

\* the documents Response.find / Response.aggregate match: those of the range
\* that hold an answer to the question
ResponsesAnswering(rs, questionId) ==
    SelectSeq(rs, LAMBDA r : \E i \in 1..Len(r.answers) : r.answers[i].questionId = questionId)

\* r.answers.find(a => a.questionId === questionId)?.answer, when there is one
HasAnswerTo(r, questionId) == \E i \in 1..Len(r.answers) : r.answers[i].questionId = questionId
AnswerTo(r, questionId) ==
    r.answers[CHOOSE i \in 1..Len(r.answers) :
                 /\ r.answers[i].questionId = questionId
                 /\ \A j \in 1..(i - 1) : r.answers[j].questionId # questionId].answer

\* if (analytics.optionCounts[ans]) analytics.optionCounts[ans]++ : a counter
\* that is missing (undefined) or 0 is falsy and is left alone
CountOption(counts, ans) ==
    IF ans \in DOMAIN counts /\ counts[ans] # 0
    THEN [counts EXCEPT ![ans] = counts[ans] + 1]
    ELSE counts

RECURSIVE CountOptions(_, _)
\* answer.answer.forEach(ans => ...)
CountOptions(counts, items) ==
    IF items = <<>> THEN counts
    ELSE CountOptions(CountOption(counts, Head(items)), Tail(items))

\* one round of responses.forEach for a choice question
CountResponse(counts, r, questionId) ==
    IF ~HasAnswerTo(r, questionId) THEN counts
    ELSE LET value == AnswerTo(r, questionId)
         IN IF ~TruthyValue(value) THEN counts
            ELSE IF value.kind = "array" THEN CountOptions(counts, value.items)
            ELSE CountOption(counts, ToJoinString(value))

RECURSIVE CountResponses(_, _, _)
CountResponses(counts, rs, questionId) ==
    IF rs = <<>> THEN counts
    ELSE CountResponses(CountResponse(counts, Head(rs), questionId), Tail(rs), questionId)

\* the optionCounts of a multiple_choice or checkboxes question, keyed by
\* option text
OptionCounts(question, rs) ==
    CountResponses(
        [t \in {question.options[i].text : i \in 1..Len(question.options)} |-> 0],
        rs, question.id)

\* responses.map(r => r.answers.find(...)?.answer)
\*          .filter(rating => rating !== null && rating !== undefined)
RatingsOf(rs, questionId) ==
    SelectSeq([i \in 1..Len(rs) |->
                  IF HasAnswerTo(rs[i], questionId) THEN AnswerTo(rs[i], questionId) ELSE Null],
              LAMBDA v : v.kind # "null")

DefaultMaxRating == 5

\* question.validation?.max || 5 : a max that is undefined or 0 is falsy
MaxRating(question) ==
    IF TruthyNumber(question.validation.max)
    THEN question.validation.max.n ELSE DefaultMaxRating

\* the bucket distribution[rating] names, 0 when none: property keys are
\* strings, so a rating names the bucket whose number has its string form
BucketOf(distribution, rating) ==
    LET named == {k \in DOMAIN distribution :
                     NumberToString(k) = ToJoinString(rating) /\ rating.kind # "array"}
    IN IF named = {} THEN 0 ELSE CHOOSE k \in named : TRUE

\* a faulty variant: if (distribution[rating]) distribution[rating]++
CountRatingFalsy(distribution, rating) ==
    IF BucketOf(distribution, rating) # 0
          /\ distribution[BucketOf(distribution, rating)] # 0
    THEN [distribution EXCEPT ![BucketOf(distribution, rating)] = @ + 1]
    ELSE distribution

\* if (distribution[rating] !== undefined) distribution[rating]++
CountRating(distribution, rating) ==
    IF BucketOf(distribution, rating) # 0
    THEN [distribution EXCEPT ![BucketOf(distribution, rating)] = @ + 1]
    ELSE distribution

RECURSIVE CountRatings(_, _)
\* ratings.forEach(rating => ...)
CountRatings(distribution, ratings) ==
    IF ratings = <<>> THEN distribution
    ELSE CountRatings(CountRating(distribution, Head(ratings)), Tail(ratings))

\* one bucket, at 0, for i = 1, 2, ... while i <= maxRating; then the count
calculateRatingDistribution(ratings, question) ==
    CountRatings([i \in 1..MaxRating(question) |-> 0], ratings)

\* a Number result: NaN or n
NaN == [nan |-> TRUE, n |-> 0]
Finite(n) == [nan |-> FALSE, n |-> n]

RECURSIVE SumRatings(_)
SumRatings(ratings) ==
    IF ratings = <<>> THEN 0 ELSE Head(ratings).n + SumRatings(Tail(ratings))

\* the least and the greatest of a non-empty sequence of numbers
MinRating(ratings) ==
    ratings[CHOOSE i \in 1..Len(ratings) : \A j \in 1..Len(ratings) : ratings[i].n <= ratings[j].n].n
MaxOfRatings(ratings) ==
    ratings[CHOOSE i \in 1..Len(ratings) : \A j \in 1..Len(ratings) : ratings[i].n >= ratings[j].n].n

\* the ratings are all numbers; a rating that is a string of letters turns
\* the sum into a string, so the quotient and Math.min / Math.max are NaN
AllNumbers(ratings) == \A i \in 1..Len(ratings) : ratings[i].kind = "number"

\* average, min, max and distribution of a rating or scale question; the
\* average is (sum / length).toFixed(2), held here in hundredths
RatingAnalytics(question, rs) ==
    LET ratings == RatingsOf(rs, question.id)
    IN [average |-> IF ratings = <<>> THEN Finite(0)
                    ELSE IF AllNumbers(ratings)
                    THEN Finite(MathRound(100 * SumRatings(ratings), Len(ratings)))
                    ELSE NaN,
        min |-> IF ratings = <<>> THEN Finite(0)
                ELSE IF AllNumbers(ratings) THEN Finite(MinRating(ratings)) ELSE NaN,
        max |-> IF ratings = <<>> THEN Finite(0)
                ELSE IF AllNumbers(ratings) THEN Finite(MaxOfRatings(ratings)) ELSE NaN,
        distribution |-> calculateRatingDistribution(ratings, question)]

calculateQuestionTypeAnalytics(question, rs) ==
    CASE question.type \in {"multiple_choice", "checkboxes"} ->
            [optionCounts |-> OptionCounts(question, rs)]
      [] question.type \in {"rating", "scale"} -> RatingAnalytics(question, rs)
      [] OTHER ->
            [custom |-> "Analytics not available for this question type"]

\* the first index of character c in s, 0 when none
IndexOf(s, c) ==
    LET found == {i \in 1..Len(s) : s[i] = c}
    IN IF found = {} THEN 0 ELSE CHOOSE i \in found : \A j \in found : i <= j

RECURSIVE Split(_, _)
\* String.prototype.split on a one-character separator
Split(s, c) ==
    IF IndexOf(s, c) = 0 THEN <<s>>
    ELSE <<SubSeq(s, 1, IndexOf(s, c) - 1)>>
            \o Split(SubSeq(s, IndexOf(s, c) + 1, Len(s)), c)

Digits == {"0", "1", "2", "3", "4", "5", "6", "7", "8", "9"}
\* the characters of the regular expression classes \w and \s
WordChars ==
    {UpperCase[i] : i \in 1..Len(UpperCase)}
        \cup {LowerCase[i] : i \in 1..Len(LowerCase)} \cup Digits \cup {"_"}
SpaceChars == {" ", "\t", "\n", "\r"}

\* text.replace(/[^\w\s]/g, '')
StripNonWord(s) == SelectSeq(s, LAMBDA c : c \in WordChars \cup SpaceChars)

StopWords ==
    {<<"t","h","e">>, <<"a">>, <<"a","n">>, <<"a","n","d">>, <<"o","r">>,
     <<"b","u","t">>, <<"i","n">>, <<"o","n">>, <<"a","t">>, <<"t","o">>,
     <<"f","o","r">>, <<"o","f">>, <<"w","i","t","h">>, <<"b","y">>}

MinKeywordLength == 2
MaxKeywords == 10

\* the words of one text that extractKeywords counts
KeywordsOf(text) ==
    SelectSeq(Split(StripNonWord(ToLowerCase(text)), " "),
              LAMBDA w : Len(w) > MinKeywordLength /\ w \notin StopWords)

\* the number of times x occurs in the sequence
Occurrences(ws, x) == Cardinality({i \in 1..Len(ws) : ws[i] = x})

\* the distinct elements of the sequence, in order of first occurrence (the
\* key order of the object that counts them)
Distinct(ws) == SelectSeq([i \in 1..Len(ws) |-> [w |-> ws[i], first |-> \A j \in 1..(i - 1) : ws[j] # ws[i]]],
                          LAMBDA e : e.first)

RECURSIVE SortByCount(_)
\* entries.sort(([,a], [,b]) => b - a): descending by count, entries of equal
\* count keeping their order
SortByCount(entries) ==
    IF entries = <<>> THEN <<>>
    ELSE LET best == CHOOSE i \in 1..Len(entries) :
                        /\ \A j \in 1..Len(entries) : entries[j].count <= entries[i].count
                        /\ \A j \in 1..(i - 1) : entries[j].count < entries[i].count
         IN <<entries[best]>>
                \o SortByCount(SubSeq(entries, 1, best - 1)
                                  \o SubSeq(entries, best + 1, Len(entries)))

extractKeywords(texts) ==
    LET words == Concat([i \in 1..Len(texts) |-> KeywordsOf(texts[i])])
        keys == Distinct(words)
        entries == [i \in 1..Len(keys) |->
                       [word |-> keys[i].w, count |-> Occurrences(words, keys[i].w)]]
        sorted == SortByCount(entries)
        top == SubSeq(sorted, 1, IF Len(sorted) < MaxKeywords THEN Len(sorted) ELSE MaxKeywords)
    IN [i \in 1..Len(top) |->
           [word |-> top[i].word, count |-> top[i].count,
            relevance |-> MathRound(100 * top[i].count, Len(texts))]]

RECURSIVE SumLengths(_)
\* the sum of the lengths of the sequences
SumLengths(ss) == IF ss = <<>> THEN 0 ELSE Len(Head(ss)) + SumLengths(Tail(ss))

\* Math.floor(Math.random() * range) + base, Math.random() being draw / RandomSteps
RandomSteps == 2
RandomDraws == 0..(RandomSteps - 1)
RandomInt(draw, range, base) == ((draw * range) \div RandomSteps) + base

PositiveRange == 30
PositiveBase == 20
NeutralRange == 40
NeutralBase == 30
NegativeRange == 20
NegativeBase == 10

\* the placeholder sentiment: three values of Math.random()
Sentiment(draws) ==
    [positive |-> RandomInt(draws[1], PositiveRange, PositiveBase),
     neutral |-> RandomInt(draws[2], NeutralRange, NeutralBase),
     negative |-> RandomInt(draws[3], NegativeRange, NegativeBase)]

\* the answers to the question that are non-empty strings
TextsOf(rs, questionId) ==
    LET answering == SelectSeq(rs, LAMBDA r :
                        /\ HasAnswerTo(r, questionId)
                        /\ AnswerTo(r, questionId).kind = "string"
                        /\ AnswerTo(r, questionId).chars # <<>>)
    IN [i \in 1..Len(answering) |-> AnswerTo(answering[i], questionId).chars]

performTextAnalysis(rs, questionId, draws) ==
    LET texts == TextsOf(rs, questionId)
        totalWords == SumLengths([i \in 1..Len(texts) |-> Split(texts[i], " ")])
    IN IF texts = <<>>
       THEN [wordCount |-> 0, averageLength |-> 0,
             sentiment |-> [positive |-> 0, neutral |-> 0, negative |-> 0],
             keywords |-> <<>>]
       ELSE [wordCount |-> totalWords,
             averageLength |-> MathRound(totalWords, Len(texts)),
             sentiment |-> Sentiment(draws),
             keywords |-> extractKeywords(texts)]

\* question.type.includes('text')
IsTextQuestion(question) == question.type \in {"text_short", "text_long"}

\* the entry calculateQuestionAnalytics pushes for one question; a.isSkipped
\* is no field of an answer (the flag is a.metadata.isSkipped), so no
\* response counts as skipped
QuestionAnalyticsOf(question, rs, draws) ==
    LET answering == ResponsesAnswering(rs, question.id)
        base == [questionId |-> question.id,
                 questionType |-> question.type,
                 questionText |-> question.title,
                 totalResponses |-> Len(answering),
                 skippedCount |-> 0,
                 analytics |-> calculateQuestionTypeAnalytics(question, answering)]
    IN IF IsTextQuestion(question)
       THEN [questionId |-> base.questionId, questionType |-> base.questionType,
             questionText |-> base.questionText, totalResponses |-> base.totalResponses,
             skippedCount |-> base.skippedCount, analytics |-> base.analytics,
             textAnalysis |-> performTextAnalysis(answering, question.id, draws)]
       ELSE base

calculateQuestionAnalytics(a, q, rs, draws) ==
    IF ~q.exists THEN a.questionAnalytics
    ELSE [i \in 1..Len(q.questions) |-> QuestionAnalyticsOf(q.questions[i], rs, draws[i])]

RECURSIVE SumTimes(_)
\* the sum of the completion times that are recorded
SumTimes(rs) ==
    IF rs = <<>> THEN 0
    ELSE (IF Head(rs).metadata.completionTime.has
          THEN Head(rs).metadata.completionTime.n ELSE 0) + SumTimes(Tail(rs))

\* Math.round($avg of metadata.completionTime || 0): $avg skips the documents
\* without the field and is null when none has it
AverageCompletionTime(rs) ==
    LET timed == SelectSeq(rs, LAMBDA r : r.metadata.completionTime.has)
    IN IF timed = <<>> THEN 0 ELSE MathRound(SumTimes(timed), Len(timed))

\* the $group stage yields no document when no response matches, and
\* responseStats is then left as it was
calculateResponseStats(a, rs) ==
    IF rs = <<>> THEN a.responseStats
    ELSE LET total == Len(rs)
             completed == Len(SelectSeq(rs, LAMBDA r : r.status = "completed"))
             abandoned == Len(SelectSeq(rs, LAMBDA r : r.status = "abandoned"))
         IN [total |-> total,
             completed |-> completed,
             abandoned |-> abandoned,
             completionRate |-> IF total > 0 THEN MathRound(100 * completed, total) ELSE 0,
             averageCompletionTime |-> AverageCompletionTime(rs),
             medianCompletionTime |-> AverageCompletionTime(rs)]

\* counts per value in order of first occurrence, each with its share of the
\* array's length
aggregateArray(arr) ==
    LET keys == Distinct(arr)
    IN [i \in 1..Len(keys) |->
           [type |-> keys[i].w,
            count |-> Occurrences(arr, keys[i].w),
            percentage |-> MathRound(100 * Occurrences(arr, keys[i].w), Len(arr))]]

\* $regexMatch of /mobile/i, then /tablet/i, on metadata.userAgent; a missing
\* input matches nothing
DeviceType(r) ==
    IF r.metadata.userAgent.has
          /\ Includes(ToLowerCase(r.metadata.userAgent.chars), <<"m","o","b","i","l","e">>)
    THEN "mobile"
    ELSE IF r.metadata.userAgent.has
          /\ Includes(ToLowerCase(r.metadata.userAgent.chars), <<"t","a","b","l","e","t">>)
    THEN "tablet"
    ELSE "desktop"

parseBrowser(userAgent) ==
    IF userAgent = <<>> THEN "Unknown"
    ELSE IF Includes(userAgent, <<"C","h","r","o","m","e">>) THEN "Chrome"
    ELSE IF Includes(userAgent, <<"F","i","r","e","f","o","x">>) THEN "Firefox"
    ELSE IF Includes(userAgent, <<"S","a","f","a","r","i">>) THEN "Safari"
    ELSE IF Includes(userAgent, <<"E","d","g","e">>) THEN "Edge"
    ELSE "Other"

\* { $push: '$metadata.<field>' }: the values of the documents that have the field
Pushed(rs, field) ==
    LET having == SelectSeq(rs, LAMBDA r : r.metadata[field].has)
    IN [i \in 1..Len(having) |-> having[i].metadata[field].chars]

\* arr.filter(Boolean) of an array of strings
NonEmpty(arr) == SelectSeq(arr, LAMBDA x : x # <<>>)

\* the $group stage yields no document when no response matches, and
\* demographics is then left as it was
calculateDemographics(a, rs) ==
    IF rs = <<>> THEN a.demographics
    ELSE [deviceTypes |-> aggregateArray([i \in 1..Len(rs) |-> DeviceType(rs[i])]),
          browsers |-> aggregateArray(
              [i \in 1..Len(Pushed(rs, "userAgent")) |->
                  parseBrowser(Pushed(rs, "userAgent")[i])]),
          locations |-> aggregateArray(NonEmpty(Pushed(rs, "country"))),
          languages |-> aggregateArray(NonEmpty(Pushed(rs, "language"))),
          timezones |-> aggregateArray(NonEmpty(Pushed(rs, "timezone")))]

\* the values of Math.random() a report may draw: three for each text
\* question that has texts to analyse
ReportDraws(q, rs) ==
    {d \in [1..Len(q.questions) -> [1..3 -> RandomDraws]] :
        \A i \in 1..Len(q.questions) :
            (~IsTextQuestion(q.questions[i])
                \/ TextsOf(ResponsesAnswering(rs, q.questions[i].id), q.questions[i].id) = <<>>)
                => d[i] = [k \in 1..3 |-> 0]}

\* the fields the three calculations of generateReport store
generateReport(a, q, rs, draws) ==
    [generated |-> TRUE,
     responseStats |-> calculateResponseStats(a, rs),
     questionAnalytics |-> calculateQuestionAnalytics(a, q, rs, draws),
     demographics |-> calculateDemographics(a, rs)]

GenerateReport ==
    /\ \E draws \in ReportDraws(questionnaire, responses) :
          analytics' = generateReport(analytics, questionnaire, responses, draws)
    /\ lastCall' = "generateReport"
    /\ UNCHANGED <<db, outcome, questionnaire, response, responses>>

-----------------------------------------------------------------------------
(* Schema validation: validateSchema *)

\* the positions of the questions with the id
QuestionsWithId(questions, id) == {i \in 1..Len(questions) : questions[i].id = id}

\* two questions share an id
DuplicateQuestionIds(questions) ==
    \E i \in 1..Len(questions) : Cardinality(QuestionsWithId(questions, questions[i].id)) > 1

\* two options of one question share an id
DuplicateOptionIds(questions) ==
    \E i \in 1..Len(questions) :
        \E k \in 1..Len(questions[i].options) : \E l \in 1..Len(questions[i].options) :
            k # l /\ questions[i].options[k].id = questions[i].options[l].id

\* the rules of question i whose action is skip_to
SkipRules(questions, i) ==
    {r \in 1..Len(questions[i].logic) : questions[i].logic[r].action = "skip_to"}

\* a condition names a question that does not exist
UnknownConditionQuestion(questions) ==
    \E i \in 1..Len(questions) : \E r \in 1..Len(questions[i].logic) :
        \E c \in 1..Len(questions[i].logic[r].conditions) :
            QuestionsWithId(questions, questions[i].logic[r].conditions[c].questionId) = {}

\* a skip_to rule names a target that does not exist
UnknownSkipTarget(questions) ==
    \E i \in 1..Len(questions) : \E r \in SkipRules(questions, i) :
        QuestionsWithId(questions, questions[i].logic[r].targetQuestionId) = {}

\* a rule names its own owning question, in a condition or as its target
SelfReference(questions) ==
    \E i \in 1..Len(questions) : \E r \in 1..Len(questions[i].logic) :
        \/ \E c \in 1..Len(questions[i].logic[r].conditions) :
              questions[i].logic[r].conditions[c].questionId = questions[i].id
        \/ r \in SkipRules(questions, i)
              /\ questions[i].logic[r].targetQuestionId = questions[i].id

\* the skip_to edges: the positions question i's skip_to rules lead to
SkipTargets(questions, i) ==
    UNION {QuestionsWithId(questions, questions[i].logic[r].targetQuestionId) :
              r \in SkipRules(questions, i)}

RECURSIVE WalkFindsCycle(_, _, _)
\* the depth-first walk over the skip_to edges from question i, path holding
\* the questions walked through: it stops at a question of the path, and
\* every step adds a question to the path
WalkFindsCycle(questions, i, path) ==
    IF i \in path THEN TRUE
    ELSE \E j \in SkipTargets(questions, i) : WalkFindsCycle(questions, j, path \cup {i})

SkipCycle(questions) == \E i \in 1..Len(questions) : WalkFindsCycle(questions, i, {})

\* a skip_to rule points at its owner's position or before it
BackwardSkip(questions) ==
    \E i \in 1..Len(questions) : \E j \in SkipTargets(questions, i) : j <= i

\* a faulty variant: option ids are not checked
validateSchemaSkippingOptions(q) ==
    {e \in {"duplicate_question_id", "unknown_condition_question", "unknown_skip_target",
            "self_reference", "skip_cycle", "backward_skip"} :
        \/ e = "duplicate_question_id" /\ DuplicateQuestionIds(q.questions)
        \/ e = "unknown_condition_question" /\ UnknownConditionQuestion(q.questions)
        \/ e = "unknown_skip_target" /\ UnknownSkipTarget(q.questions)
        \/ e = "self_reference" /\ SelfReference(q.questions)
        \/ e = "skip_cycle" /\ SkipCycle(q.questions)
        \/ e = "backward_skip" /\ BackwardSkip(q.questions)}

\* the SchemaErrors of the questionnaire, by kind
validateSchema(q) ==
    {e \in {"duplicate_question_id", "duplicate_option_id", "unknown_condition_question",
            "unknown_skip_target", "self_reference", "skip_cycle", "backward_skip"} :
        \/ e = "duplicate_question_id" /\ DuplicateQuestionIds(q.questions)
        \/ e = "duplicate_option_id" /\ DuplicateOptionIds(q.questions)
        \/ e = "unknown_condition_question" /\ UnknownConditionQuestion(q.questions)
        \/ e = "unknown_skip_target" /\ UnknownSkipTarget(q.questions)
        \/ e = "self_reference" /\ SelfReference(q.questions)
        \/ e = "skip_cycle" /\ SkipCycle(q.questions)
        \/ e = "backward_skip" /\ BackwardSkip(q.questions)}

\* the list of SchemaErrors a call reports
SchemaErrors(errors) == [kind |-> "SchemaErrors", errors |-> errors]

ValidateSchema ==
    /\ outcome' = SchemaErrors(validateSchema(questionnaire))
    /\ lastCall' = "validateSchema"
    /\ UNCHANGED <<db, questionnaire, response, responses, analytics>>

-----------------------------------------------------------------------------
(* Logic evaluation: evaluate *)

\* the stored value is null, undefined, the empty string or the empty list
IsEmptyValue(v) ==
    \/ v.kind = "null"
    \/ v.kind = "string" /\ v.chars = <<>>
    \/ v.kind = "array" /\ v.items = <<>>

\* a condition against answers[condition.questionId], a question without an
\* answer counting as empty; the rules of the model use is_empty and
\* is_not_empty
ConditionHolds(c, answers) ==
    LET empty == \/ ~\E a \in 1..Len(answers) : answers[a].questionId = c.questionId
                 \/ IsEmptyValue(answers[CHOOSE a \in 1..Len(answers) :
                                     answers[a].questionId = c.questionId].answer)
    IN CASE c.operator = "is_empty" -> empty
         [] c.operator = "is_not_empty" -> ~empty
         [] OTHER -> FALSE

\* the conditions combined by AND, or by OR when isAndCondition is false
RuleHolds(rule, answers) ==
    IF rule.isAndCondition
    THEN \A c \in 1..Len(rule.conditions) : ConditionHolds(rule.conditions[c], answers)
    ELSE \E c \in 1..Len(rule.conditions) : ConditionHolds(rule.conditions[c], answers)

Unreachable == [visible |-> FALSE, required |-> FALSE, reachable |-> FALSE]

\* the state after the rule of question i: show/hide and require/unrequire
\* set the owner's flags, skip_to makes the questions between the owner and
\* the target unreachable
ApplyRule(state, questions, i, rule, answers) ==
    IF ~RuleHolds(rule, answers) THEN state
    ELSE CASE rule.action = "show" -> [state EXCEPT ![i].visible = TRUE]
           [] rule.action = "hide" -> [state EXCEPT ![i].visible = FALSE]
           [] rule.action = "require" -> [state EXCEPT ![i].required = TRUE]
           [] rule.action = "unrequire" -> [state EXCEPT ![i].required = FALSE]
           [] OTHER ->
                [k \in 1..Len(questions) |->
                    IF i < k /\ k < FindQuestion(questions, rule.targetQuestionId)
                    THEN Unreachable ELSE state[k]]

RECURSIVE ApplyRules(_, _, _, _, _)
\* the rules of question i in declaration order, a later rule overriding
\* an earlier one
ApplyRules(state, questions, i, rules, answers) ==
    IF rules = <<>> THEN state
    ELSE ApplyRules(ApplyRule(state, questions, i, Head(rules), answers),
                    questions, i, Tail(rules), answers)

\* a faulty variant: the rules of a skipped question are applied as well
EvaluateQuestionWhenSkipped(state, questions, i, answers) ==
    ApplyRules(state, questions, i, questions[i].logic, answers)

\* one step of the forward pass: the rules of a question that a skip has
\* made unreachable are not applied
EvaluateQuestion(state, questions, i, answers) ==
    IF ~state[i].reachable THEN state
    ELSE ApplyRules(state, questions, i, questions[i].logic, answers)

RECURSIVE ForwardPass(_, _, _, _)
\* the single pass over the questions in schema order, from question i on
ForwardPass(state, questions, i, answers) ==
    IF i > Len(questions) THEN state
    ELSE ForwardPass(EvaluateQuestion(state, questions, i, answers), questions, i + 1, answers)

\* the EvaluationState of the schema and the answers
evaluate(q, answers) ==
    ForwardPass([i \in 1..Len(q.questions) |->
                    [visible |-> q.questions[i].isVisible,
                     required |-> q.questions[i].required,
                     reachable |-> TRUE]],
                q.questions, 1, answers)

\* a schema that fails validation is rejected with its SchemaErrors, and
\* only a valid one is evaluated against the response's answers
Evaluate ==
    /\ outcome' = IF validateSchema(questionnaire) # {}
                  THEN SchemaErrors(validateSchema(questionnaire))
                  ELSE [kind |-> "EvaluationState",
                        state |-> evaluate(questionnaire, response.answers)]
    /\ lastCall' = "evaluate"
    /\ UNCHANGED <<db, questionnaire, response, responses, analytics>>

-----------------------------------------------------------------------------
(* Analytics.generateRealtimeAnalytics *)

\* 24 * 60 * 60 * 1000 milliseconds
DayMillis == 86400000

\* the stored documents the filter of findOneAndUpdate matches
RealtimeMatches(records, questionnaireId, now) ==
    {a \in records :
        /\ a.questionnaire = questionnaireId
        /\ a.reportType = "realtime"
        /\ a.dateRange = [start |-> now - DayMillis, end |-> now]}

\* findOneAndUpdate(filter, update, { upsert: true, new: true }) at time now:
\* a matching document takes the update, and with no match one is inserted
generateRealtimeAnalytics(records, questionnaireId, workspaceId, now) ==
    LET update == [questionnaire |-> questionnaireId,
                   workspace |-> workspaceId,
                   dateRange |-> [start |-> now - DayMillis, end |-> now],
                   reportType |-> "realtime"]
        matches == RealtimeMatches(records, questionnaireId, now)
    IN IF matches = {} THEN records \cup {update}
       ELSE (records \ {CHOOSE a \in matches : TRUE}) \cup {update}

\* a call at time now of the clock, which never runs backwards
GenerateRealtimeAnalytics(questionnaireId, workspaceId, now) ==
    /\ \A a \in db.analytics : a.dateRange.end <= now
    /\ db' = [db EXCEPT !.analytics =
                  generateRealtimeAnalytics(db.analytics, questionnaireId, workspaceId, now)]
    /\ lastCall' = "generateRealtimeAnalytics"
    /\ UNCHANGED <<outcome, questionnaire, response, responses, analytics>>

-----------------------------------------------------------------------------
(* AuditLog.assessRisk and AuditLog.logAction *)

HighRiskActions ==
    {"user_delete", "questionnaire_delete", "workspace_delete", "response_delete",
     "admin_action"}

\* pattern.test(s) for the patterns /^192\.168\./, /^10\./ and /^172\./
StartsWith(s, prefix) ==
    Len(s) >= Len(prefix) /\ \A j \in 1..Len(prefix) : s[j] = prefix[j]

SuspiciousPatterns ==
    {<<"1","9","2",".","1","6","8",".">>, <<"1","0",".">>, <<"1","7","2",".">>}

SensitiveFields ==
    {<<"p","a","s","s","w","o","r","d">>, <<"e","m","a","i","l">>,
     <<"p","e","r","s","o","n","a","l","I","n","f","o">>,
     <<"p","a","y","m","e","n","t","I","n","f","o">>}

\* changes.fields.length > 10
BulkThreshold == 10

\* if (highRiskActions.includes(this.action)) riskLevel = 'high'
RiskOfAction(action) == IF action \in HighRiskActions THEN "high" ELSE "low"

IsSuspiciousIp(ipAddress) ==
    TruthyString(ipAddress) /\ \E p \in SuspiciousPatterns : StartsWith(ipAddress.chars, p)

\* riskLevel = riskLevel === 'low' ? 'medium' : riskLevel
RiskAfterIp(level, ipAddress) ==
    IF IsSuspiciousIp(ipAddress) /\ level = "low" THEN "medium" ELSE level

IsBulk(fields) == Len(fields) > BulkThreshold

\* riskLevel = 'medium'
RiskAfterBulk(level, fields) == IF IsBulk(fields) THEN "medium" ELSE level

HasSensitiveData(fields) ==
    \E i \in 1..Len(fields) : \E sensitive \in SensitiveFields : Includes(fields[i], sensitive)

\* riskLevel = riskLevel === 'low' ? 'medium' : 'high'
RiskAfterSensitive(level, fields) ==
    IF HasSensitiveData(fields) THEN (IF level = "low" THEN "medium" ELSE "high") ELSE level

\* the flags in the order the checks push them
RiskFlags(log) ==
    (IF IsSuspiciousIp(log.metadata.ipAddress) THEN <<"suspicious_ip">> ELSE <<>>)
        \o (IF IsBulk(log.changes.fields) THEN <<"bulk_action">> ELSE <<>>)
        \o (IF HasSensitiveData(log.changes.fields) THEN <<"sensitive_data">> ELSE <<>>)

\* the risk the method assigns to the document
assessRisk(log) ==
    [log EXCEPT !.risk =
        [level |-> RiskAfterSensitive(
                       RiskAfterBulk(
                           RiskAfterIp(RiskOfAction(log.action), log.metadata.ipAddress),
                           log.changes.fields),
                       log.changes.fields),
         flags |-> RiskFlags(log)]]

\* new AuditLog(data): the schema's defaults for risk
NewAuditLog(action, ipAddress, fields) ==
    [action |-> action,
     metadata |-> [ipAddress |-> ipAddress],
     changes |-> [fields |-> fields],
     risk |-> [level |-> "low", flags |-> <<>>]]

\* AuditLog.logAction(data): the document is created and saved, the
\* pre('save') hook assessing its risk
LogAction(action, ipAddress, fields) ==
    /\ db' = [db EXCEPT !.auditLogs = Append(@, assessRisk(NewAuditLog(action, ipAddress, fields)))]
    /\ lastCall' = "logAction"
    /\ UNCHANGED <<outcome, questionnaire, response, responses, analytics>>

-----------------------------------------------------------------------------
(* Workspace.addMember, removeMember and updateMemberRole *)

\* the permissions in the order canCreateQuestionnaires, canEditQuestionnaires,
\* canDeleteQuestionnaires, canViewAllResponses, canExportData,
\* canManageMembers, canManageSettings; an unknown role has the viewer's
getPermissionsForRole(role) ==
    CASE role \in {"owner", "admin"} -> <<TRUE, TRUE, TRUE, TRUE, TRUE, TRUE, TRUE>>
      [] role = "editor" -> <<TRUE, TRUE, FALSE, TRUE, TRUE, FALSE, FALSE>>
      [] OTHER -> <<FALSE, FALSE, FALSE, TRUE, FALSE, FALSE, FALSE>>

\* this.members.find(m => m.user.toString() === userId.toString()): its
\* index, 0 when none
FindMember(members, userId) ==
    LET found == {i \in 1..Len(members) : members[i].user = userId}
    IN IF found = {} THEN 0 ELSE CHOOSE i \in found : \A j \in found : i <= j

\* a method that threw: the document is as before
Thrown(method, userId, message) ==
    [kind |-> "error", method |-> method, userId |-> userId, message |-> message]

\* a method that returned
Returned(method, userId) == [kind |-> "returned", method |-> method, userId |-> userId]

\* a faulty variant: no test for an existing member
addMemberUnchecked(w, userId, role, invitedBy) ==
    IF Len(w.members) >= w.subscription.limits.maxMembers
    THEN [workspace |-> w,
          outcome |-> Thrown("addMember", userId, "Workspace member limit reached")]
    ELSE [workspace |->
             [w EXCEPT !.members =
                 Append(@, [user |-> userId, role |-> role,
                            permissions |-> getPermissionsForRole(role),
                            invitedBy |-> invitedBy])],
          outcome |-> Returned("addMember", userId)]

\* the document and the outcome of the call; joinedAt, the time of the call,
\* is not held
addMember(w, userId, role, invitedBy) ==
    IF FindMember(w.members, userId) # 0
    THEN [workspace |-> w,
          outcome |-> Thrown("addMember", userId,
                             "User is already a member of this workspace")]
    ELSE IF Len(w.members) >= w.subscription.limits.maxMembers
    THEN [workspace |-> w,
          outcome |-> Thrown("addMember", userId, "Workspace member limit reached")]
    ELSE [workspace |->
             [w EXCEPT !.members =
                 Append(@, [user |-> userId, role |-> role,
                            permissions |-> getPermissionsForRole(role),
                            invitedBy |-> invitedBy])],
          outcome |-> Returned("addMember", userId)]

removeMember(w, userId) ==
    IF w.owner = userId
    THEN [workspace |-> w,
          outcome |-> Thrown("removeMember", userId, "Cannot remove workspace owner")]
    ELSE [workspace |->
             [w EXCEPT !.members = SelectSeq(@, LAMBDA m : m.user # userId)],
          outcome |-> Returned("removeMember", userId)]

updateMemberRole(w, userId, newRole) ==
    IF FindMember(w.members, userId) = 0
    THEN [workspace |-> w,
          outcome |-> Thrown("updateMemberRole", userId,
                             "User is not a member of this workspace")]
    ELSE [workspace |->
             [w EXCEPT !.members[FindMember(w.members, userId)] =
                 [@ EXCEPT !.role = newRole,
                           !.permissions = getPermissionsForRole(newRole)]],
          outcome |-> Returned("updateMemberRole", userId)]

\* a call on the workspace document: the document and the outcome it leaves
Called(result, method) ==
    /\ db' = [db EXCEPT !.workspace = result.workspace]
    /\ outcome' = result.outcome
    /\ lastCall' = method
    /\ UNCHANGED <<questionnaire, response, responses, analytics>>

AddMember(userId, role, invitedBy) ==
    Called(addMember(db.workspace, userId, role, invitedBy), "addMember")

RemoveMember(userId) == Called(removeMember(db.workspace, userId), "removeMember")

UpdateMemberRole(userId, newRole) ==
    Called(updateMemberRole(db.workspace, userId, newRole), "updateMemberRole")

-----------------------------------------------------------------------------
(* Authentication: the authenticate middleware and the routes of auth.js   *)
(* and users.js.  db.users holds the User documents in the order of their  *)
(* creation and db.clock the time of the latest request.  A handler is an  *)
(* operator from the users and the request to the users it leaves and the  *)
(* response it sends; a request is handled as a whole.  The audit entries  *)
(* the routes log are not held: logAction never throws.  db.history is a   *)
(* history of the requests answered 2xx that presented a token, and of the *)
(* tokens the responses issued; no handler reads it.  outcome holds the    *)
(* response together with the token and the email of its request.          *)

\* no call has returned a value yet
NoOutcome == [kind |-> "none"]

\* jwt.sign({ userId }, secret, { expiresIn }) at time now, by the secret
AccessToken(userId, now) == [kind |-> "access", userId |-> userId, iat |-> now]
RefreshToken(userId, now) == [kind |-> "refresh", userId |-> userId, iat |-> now]
NoToken == [kind |-> "none", userId |-> "", iat |-> 0]

\* a token no secret of the server has signed
ForgedToken == [kind |-> "forged", userId |-> "u1", iat |-> 0]

\* the tokens the responses have issued so far
Issued(history) == {h.presented : h \in {x \in history : x.route = "issued"}}

\* the clock of the requests counts seconds, as iat and exp of a token do:
\* 24 * 60 * 60 seconds
DaySeconds == 86400

\* expiresIn '7d' and '30d'; Date.now() + 30 * 24 * 60 * 60 * 1000
AccessLifetime == 7 * DaySeconds
RefreshLifetime == 30 * DaySeconds

\* jwt.verify(token, secret) returns the payload: the token was signed with
\* that secret and has not expired
Verifies(token, kind, lifetime, now) == token.kind = kind /\ now < token.iat + lifetime

\* bcrypt.hash(password, salt), and bcrypt.compare(candidate, hash)
BcryptHash(password) == <<"$2a$12$">> \o password
BcryptCompare(candidate, hash) == hash = BcryptHash(candidate)

\* crypto.createHash('sha256').update(token).digest('hex')
Sha256(token) == <<"sha256:">> \o token

\* /^[^\s@]+@[^\s@]+\.[^\s@]+$/.test(v)
ValidEmail(v) ==
    /\ \A i \in 1..Len(v) : v[i] \notin {" ", "\t", "\n", "\r"}
    /\ \E i \in 2..Len(v) :
          /\ v[i] = "@"
          /\ \A k \in 1..Len(v) : v[k] = "@" => k = i
          /\ \E j \in (i + 2)..(Len(v) - 1) : v[j] = "."

\* res.status(status).json({ error, message }), with the user and the tokens
\* of the body; presented is the refresh or reset token of the request
Response(status, error, message) ==
    [kind |-> "response", status |-> status, error |-> error, message |-> message,
     userId |-> "", accessToken |-> NoToken, refreshToken |-> NoToken,
     presented |-> NoToken, email |-> <<>>]

\* the _id of the documents in the order of their creation
UserIdAt == <<"u1", "u2", "u3", "u4", "u5", "u6">>

\* a new User document: the schema's defaults
NewUser(id, email, password) ==
    [id |-> id, email |-> email, password |-> password, isActive |-> TRUE,
     refreshTokens |-> <<>>,
     passwordResetToken |-> NoString, passwordResetExpires |-> Undefined]

\* User.findOne({ email }): the index of the document, 0 when none
FindByEmail(users, email) ==
    LET found == {i \in 1..Len(users) : users[i].email = email}
    IN IF found = {} THEN 0 ELSE CHOOSE i \in found : \A j \in found : i <= j

\* User.findById(id): the index of the document, 0 when none
FindById(users, id) ==
    LET found == {i \in 1..Len(users) : users[i].id = id}
    IN IF found = {} THEN 0 ELSE CHOOSE i \in found : TRUE

\* the middleware: the index of req.user when the request passes, and else 0
\* and the response it sends
authenticate(users, token, now) ==
    IF token = NoToken
    THEN [user |-> 0,
          response |-> Response(401, "Authentication Error", "Access denied. No token provided.")]
    ELSE IF ~Verifies(token, "access", AccessLifetime, now)
    THEN [user |-> 0, response |-> Response(401, "Authentication Error", "Token is not valid.")]
    ELSE IF FindById(users, token.userId) = 0
    THEN [user |-> 0,
          response |-> Response(401, "Authentication Error", "Token is not valid. User not found.")]
    ELSE IF ~users[FindById(users, token.userId)].isActive
    THEN [user |-> 0,
          response |-> Response(401, "Authentication Error", "Account is deactivated.")]
    ELSE [user |-> FindById(users, token.userId), response |-> NoOutcome]

\* user.refreshTokens.push({ token, expiresAt }) and user.save()
WithRefreshToken(user, now) ==
    [user EXCEPT !.refreshTokens =
        Append(@, [token |-> RefreshToken(user.id, now), expiresAt |-> now + RefreshLifetime])]

\* the response with the tokens of the body
WithTokens(res, userId, now) ==
    [res EXCEPT !.userId = userId,
                !.accessToken = AccessToken(userId, now),
                     !.refreshToken = RefreshToken(userId, now)]

MinPasswordLength == 8

\* POST /api/auth/register; firstName and lastName are given
register(users, email, password, now) ==
    IF email = <<>> \/ password = <<>>
    THEN [users |-> users,
          response |-> Response(400, "Validation Error", "All fields are required")]
    ELSE IF Len(password) < MinPasswordLength
    THEN [users |-> users,
          response |-> Response(400, "Validation Error",
                                "Password must be at least 8 characters long")]
    ELSE IF FindByEmail(users, ToLowerCase(email)) # 0
    THEN [users |-> users,
          response |-> Response(400, "Validation Error", "User with this email already exists")]
    ELSE IF ~ValidEmail(ToLowerCase(email))
    THEN [users |-> users, response |-> Response(500, "Server Error", "Registration failed")]
    ELSE LET user == NewUser(UserIdAt[Len(users) + 1], ToLowerCase(email),
                             BcryptHash(password))
         IN [users |-> Append(users, WithRefreshToken(user, now)),
             response |-> WithTokens(Response(201, "", "User registered successfully"),
                                     user.id, now)]

\* POST /api/auth/login
login(users, email, password, now) ==
    IF email = <<>> \/ password = <<>>
    THEN [users |-> users,
          response |-> Response(400, "Validation Error", "Email and password are required")]
    ELSE IF FindByEmail(users, ToLowerCase(email)) = 0
    THEN [users |-> users,
          response |-> Response(401, "Authentication Error", "Invalid credentials")]
    ELSE LET i == FindByEmail(users, ToLowerCase(email))
         IN IF ~BcryptCompare(password, users[i].password)
            THEN [users |-> users,
                  response |-> Response(401, "Authentication Error", "Invalid credentials")]
            ELSE IF ~users[i].isActive
            THEN [users |-> users,
                  response |-> Response(401, "Authentication Error", "Account is deactivated")]
            ELSE [users |-> [users EXCEPT ![i] = WithRefreshToken(@, now)],
                  response |-> WithTokens(Response(200, "", "Login successful"),
                                          users[i].id, now)]

\* a request at time now of the clock, which never runs backwards: the users
\* the handler leaves and the response it sends
Handled(result, route, presented, now) ==
    /\ db.clock <= now
    /\ db' = [db EXCEPT !.users = result.users,
                        !.clock = now,
                        !.history =
                            @ \cup (IF result.response.status < 300 /\ presented # NoToken
                                    THEN {[route |-> route, presented |-> presented]}
                                    ELSE {})
                              \cup {[route |-> "issued", presented |-> t] :
                                       t \in {result.response.accessToken,
                                               result.response.refreshToken} \ {NoToken}}]
    /\ outcome' = [result.response EXCEPT !.presented = presented]
    /\ lastCall' = route
    /\ UNCHANGED <<questionnaire, response, responses, analytics>>

\* POST /api/auth/logout, behind authenticate
logout(users, accessToken, refreshToken, now) ==
    LET auth == authenticate(users, accessToken, now)
    IN IF auth.user = 0 THEN [users |-> users, response |-> auth.response]
       ELSE [users |->
                IF refreshToken = NoToken THEN users
                ELSE [users EXCEPT ![auth.user].refreshTokens =
                         SelectSeq(@, LAMBDA t : t.token # refreshToken)],
             response |-> Response(200, "", "Logout successful")]

\* a faulty variant: jwt is required by the module
JwtImported == TRUE

\* auth.js requires express, bcryptjs, crypto, the models and the middleware:
\* jwt is no binding of the module, and jwt.verify throws a ReferenceError
JwtInScope == FALSE

\* POST /api/auth/refresh; the catch answers whatever the try throws
refresh(users, refreshToken, now) ==
    IF refreshToken = NoToken
    THEN [users |-> users,
          response |-> Response(400, "Validation Error", "Refresh token is required")]
    ELSE IF ~JwtInScope \/ ~Verifies(refreshToken, "refresh", RefreshLifetime, now)
    THEN [users |-> users,
          response |-> Response(401, "Authentication Error", "Invalid refresh token")]
    ELSE IF FindById(users, refreshToken.userId) = 0
    THEN [users |-> users,
          response |-> Response(401, "Authentication Error", "Invalid refresh token")]
    ELSE LET user == users[FindById(users, refreshToken.userId)]
             found == {i \in 1..Len(user.refreshTokens) :
                          user.refreshTokens[i].token = refreshToken}
         IN IF found = {}
               \/ user.refreshTokens[CHOOSE i \in found : \A j \in found : i <= j].expiresAt < now
            THEN [users |-> users,
                  response |-> Response(401, "Authentication Error",
                                        "Refresh token expired or invalid")]
            ELSE [users |-> users,
                  response |-> [Response(200, "", "") EXCEPT
                                   !.accessToken = AccessToken(user.id, now)]]

\* the User model requires mongoose and bcryptjs: crypto is no binding of
\* the module that has randomBytes, and crypto.randomBytes throws
CryptoInScope == FALSE

\* 10 * 60 * 1000 milliseconds, in seconds
ResetLifetime == 600

\* user.generatePasswordResetToken() at time now, drawing resetToken
generatePasswordResetToken(user, resetToken, now) ==
    [user EXCEPT !.passwordResetToken = String(Sha256(resetToken)),
                 !.passwordResetExpires = Number(now + ResetLifetime)]

GenericResetMessage ==
    "If an account with this email exists, a password reset link has been sent."

\* POST /api/auth/forgot-password
forgotPassword(users, email, resetToken, now) ==
    IF email = <<>>
    THEN [users |-> users, response |-> Response(400, "Validation Error", "Email is required")]
    ELSE IF FindByEmail(users, ToLowerCase(email)) = 0
    THEN [users |-> users, response |-> Response(200, "", GenericResetMessage)]
    ELSE IF ~CryptoInScope
    THEN [users |-> users,
          response |-> Response(500, "Server Error", "Password reset request failed")]
    ELSE [users |-> [users EXCEPT ![FindByEmail(users, ToLowerCase(email))] =
                        generatePasswordResetToken(@, resetToken, now)],
          response |-> Response(200, "", GenericResetMessage)]

\* User.findOne({ passwordResetToken, passwordResetExpires: { $gt: now } })
FindByResetToken(users, hashedToken, now) ==
    LET found == {i \in 1..Len(users) :
                     /\ users[i].passwordResetToken = String(hashedToken)
                     /\ users[i].passwordResetExpires.has
                     /\ users[i].passwordResetExpires.n > now}
    IN IF found = {} THEN 0 ELSE CHOOSE i \in found : \A j \in found : i <= j

\* POST /api/auth/reset-password; the pre('save') hook hashes the password
resetPassword(users, token, newPassword, now) ==
    IF token = <<>> \/ newPassword = <<>>
    THEN [users |-> users,
          response |-> Response(400, "Validation Error", "Token and new password are required")]
    ELSE IF Len(newPassword) < MinPasswordLength
    THEN [users |-> users,
          response |-> Response(400, "Validation Error",
                                "Password must be at least 8 characters long")]
    ELSE IF FindByResetToken(users, Sha256(token), now) = 0
    THEN [users |-> users,
          response |-> Response(400, "Validation Error", "Invalid or expired reset token")]
    ELSE [users |-> [users EXCEPT ![FindByResetToken(users, Sha256(token), now)] =
                        [@ EXCEPT !.password = BcryptHash(newPassword),
                                  !.passwordResetToken = NoString,
                                  !.passwordResetExpires = Undefined]],
          response |-> Response(200, "", "Password reset successful")]

\* GET /api/users/profile, behind authenticate
profile(users, accessToken, now) ==
    LET auth == authenticate(users, accessToken, now)
    IN IF auth.user = 0 THEN [users |-> users, response |-> auth.response]
       ELSE [users |-> users,
             response |-> [Response(200, "", "") EXCEPT !.userId = users[auth.user].id]]

\* .select('-password'): the document authenticate loads has no password
WithoutPassword(user) == [user EXCEPT !.password = <<>>]

\* `deleted_${Date.now()}_${req.user.email}`
DeletedEmail(email, now) ==
    <<"d","e","l","e","t","e","d","_">> \o NatToString(now) \o <<"_">> \o email

\* DELETE /api/users/account, behind authenticate; bcrypt.compare rejects
\* when the hash is undefined, and the catch answers 500
deleteAccount(users, workspace, accessToken, password, confirmDelete, now) ==
    LET auth == authenticate(users, accessToken, now)
        reqUser == WithoutPassword(users[auth.user])
    IN IF auth.user = 0 THEN [users |-> users, response |-> auth.response]
       ELSE IF password = <<>> \/ confirmDelete # "DELETE"
       THEN [users |-> users,
             response |-> Response(400, "Validation Error", "Password and confirmation required")]
       ELSE IF reqUser.password = <<>>
       THEN [users |-> users,
             response |-> Response(500, "Server Error", "Failed to delete account")]
       ELSE IF ~BcryptCompare(password, reqUser.password)
       THEN [users |-> users,
             response |-> Response(400, "Validation Error", "Password is incorrect")]
       ELSE IF workspace.owner = users[auth.user].id
       THEN [users |-> users,
             response |-> Response(400, "Validation Error",
                 "Cannot delete account while owning workspaces. Transfer ownership first.")]
       ELSE [users |-> [users EXCEPT ![auth.user] =
                           [@ EXCEPT !.isActive = FALSE,
                                     !.email = DeletedEmail(@, now)]],
             response |-> Response(200, "", "Account deleted successfully")]

\* the result of a request whose body names email
For(result, email) == [result EXCEPT !.response.email = email]

\* the reset token of a request, as the history holds it
ResetToken(token) == [kind |-> "reset", chars |-> token]

Register(email, password, now) ==
    Handled(For(register(db.users, email, password, now), email), "register", NoToken, now)

Login(email, password, now) ==
    Handled(For(login(db.users, email, password, now), email), "login", NoToken, now)

Logout(accessToken, refreshToken, now) ==
    Handled(logout(db.users, accessToken, refreshToken, now), "logout", refreshToken, now)

Refresh(refreshToken, now) ==
    Handled(refresh(db.users, refreshToken, now), "refresh", refreshToken, now)

ForgotPassword(email, resetToken, now) ==
    Handled(For(forgotPassword(db.users, email, resetToken, now), email),
            "forgotPassword", NoToken, now)

ResetPassword(token, newPassword, now) ==
    Handled(resetPassword(db.users, token, newPassword, now),
            "resetPassword", ResetToken(token), now)

Profile(accessToken, now) ==
    Handled(profile(db.users, accessToken, now), "profile", accessToken, now)

DeleteAccount(accessToken, password, confirmDelete, now) ==
    Handled(deleteAccount(db.users, db.workspace, accessToken, password, confirmDelete, now),
            "deleteAccount", accessToken, now)

-----------------------------------------------------------------------------
(* Inputs *)

MaxQualityAnswers == 6

RECURSIVE SeqsUpTo(_, _)
\* the sequences of at most n elements of S
SeqsUpTo(S, n) ==
    IF n = 0 THEN {<<>>}
    ELSE LET shorter == SeqsUpTo(S, n - 1)
         IN shorter \cup {Append(s, x) : s \in {t \in shorter : Len(t) = n - 1}, x \in S}

QuestionIdAt == <<"q1", "q2", "q3", "q4", "q5", "q6", "q7", "q8">>

NoScoring ==
    [set |-> FALSE, totalScore |-> 0, maxScore |-> 0, percentage |-> 0,
     grade |-> "", passed |-> FALSE, questionScores |-> <<>>]

DefaultQualityChecks == [flags |-> <<>>, isSuspicious |-> FALSE]

NoQuestionnaire == [exists |-> FALSE, category |-> "survey", questions |-> <<>>]

\* a new Analytics document: the schema's defaults, no report generated yet
NoAnalytics ==
    [generated |-> FALSE,
     responseStats |-> [total |-> 0, completed |-> 0, abandoned |-> 0,
                        completionRate |-> 0, averageCompletionTime |-> 0,
                        medianCompletionTime |-> 0],
     questionAnalytics |-> <<>>,
     demographics |-> [deviceTypes |-> <<>>, browsers |-> <<>>, locations |-> <<>>,
                       languages |-> <<>>, timezones |-> <<>>]]

\* a Workspace document with the schema's default limit and no member
NoWorkspace ==
    [owner |-> "", members |-> <<>>, subscription |-> [limits |-> [maxMembers |-> 5]]]

\* the collections with no document stored: db.analytics holds the stored
\* Analytics documents, db.auditLogs the AuditLog documents in the order of
\* their saving, db.workspace the Workspace document, db.users the User
\* documents and db.clock the time of the latest request
EmptyDb ==
    [analytics |-> {}, auditLogs |-> <<>>, workspace |-> NoWorkspace,
     users |-> <<>>, clock |-> 0, history |-> {}]


\* a new Response document with the given answers and metadata
NewResponse(answers, completionTime, totalQuestions, userAgent) ==
    [answers |-> answers,
     status |-> "in_progress",
     metadata |-> [completionTime |-> completionTime, userAgent |-> userAgent,
                   language |-> NoString, timezone |-> NoString,
                   country |-> NoString],
     progress |-> [completedQuestions |-> 0, totalQuestions |-> totalQuestions,
                   percentage |-> 0],
     scoring |-> NoScoring,
     qualityChecks |-> DefaultQualityChecks]

QualityAnswerValues == {Str(<<"5">>), Str(<<"\n">>), Arr(<<<<"5">>, <<"5">>>>), Null}
QualityTimes == {Undefined, Number(0), Number(6), Number(15)}
QualityTotals == {Undefined, Number(0), Number(3)}
QualityUserAgents ==
    {NoString, String(<<"M","o","z">>), String(<<"a","B","o","t">>)}

QualityAnswers ==
    {[i \in 1..Len(vs) |-> [questionId |-> QuestionIdAt[i], answer |-> vs[i]]] :
        vs \in SeqsUpTo(QualityAnswerValues, MaxQualityAnswers)}

InitQuality ==
    /\ questionnaire = NoQuestionnaire
    /\ response \in {NewResponse(a, t, n, ua) :
            a \in QualityAnswers, t \in QualityTimes,
            n \in QualityTotals, ua \in QualityUserAgents}
    /\ responses = <<>>
    /\ analytics = NoAnalytics
    /\ db = EmptyDb
    /\ outcome = NoOutcome
    /\ lastCall = "none"

NextQuality == PerformQualityChecks

SpecQuality == InitQuality /\ [][NextQuality]_vars

\* n answers, each the literal string "5"
FiveAnswers(n) ==
    [i \in 1..n |-> [questionId |-> QuestionIdAt[i], answer |-> Str(<<"5">>)]]

RecheckAnswers ==
    {FiveAnswers(0), FiveAnswers(MaxQualityAnswers - 1), FiveAnswers(MaxQualityAnswers)}
RecheckTimes == {Number(6), Number(15)}
RecheckUserAgents == {String(<<"M","o","z">>), String(<<"a","B","o","t">>)}

\* a new response of three questions; it is then checked, saved and edited
\* in any order
InitRecheck ==
    /\ questionnaire = NoQuestionnaire
    /\ response \in {NewResponse(a, t, Number(3), ua) :
            a \in RecheckAnswers, t \in RecheckTimes, ua \in RecheckUserAgents}
    /\ responses = <<>>
    /\ analytics = NoAnalytics
    /\ db = EmptyDb
    /\ outcome = NoOutcome
    /\ lastCall = "none"

NextRecheck ==
    \/ PerformQualityChecks
    \/ SaveResponse
    \/ \E a \in RecheckAnswers, t \in RecheckTimes, ua \in RecheckUserAgents :
          EditResponse(a, t, ua)

SpecRecheck == InitRecheck /\ [][NextRecheck]_vars

MaxProgressAnswers == 3

ProgressValues == {Null, Str(<<>>), Str(<<"a">>), Num(0)}
ProgressTotals == {Undefined, Number(0), Number(2)}

ProgressAnswers ==
    {[i \in 1..Len(vs) |-> [questionId |-> QuestionIdAt[i], answer |-> vs[i]]] :
        vs \in SeqsUpTo(ProgressValues, MaxProgressAnswers)}

\* a new response; it is then saved and its answers reassigned in any order
InitProgress ==
    /\ questionnaire = NoQuestionnaire
    /\ response \in {NewResponse(a, Undefined, total, NoString) :
            a \in ProgressAnswers, total \in ProgressTotals}
    /\ responses = <<>>
    /\ analytics = NoAnalytics
    /\ db = EmptyDb
    /\ outcome = NoOutcome
    /\ lastCall = "none"

NextProgress ==
    \/ SaveValidated
    \/ \E a \in ProgressAnswers :
          EditResponse(a, response.metadata.completionTime, response.metadata.userAgent)

SpecProgress == InitProgress /\ [][NextProgress]_vars

MaxScoreAnswers == 2

ScoreValues == {Undefined, Number(-4), Number(0), Number(7), Number(16)}
OptionIds == <<<<"a">>, <<"b">>>>

\* a choice question whose two options carry the given scores
ChoiceQuestion(id, s1, s2) ==
    [id |-> id, type |-> "multiple_choice", title |-> id,
     options |-> <<[id |-> OptionIds[1], text |-> OptionIds[1], score |-> s1],
                   [id |-> OptionIds[2], text |-> OptionIds[2], score |-> s2]>>]

ScoreQuestionLists ==
    {<<ChoiceQuestion("q1", s1, s2)>> : s1 \in ScoreValues, s2 \in ScoreValues}
    \cup {<<ChoiceQuestion("q1", s1, s2), ChoiceQuestion("q2", s3, s4)>> :
            s1 \in ScoreValues, s2 \in ScoreValues,
            s3 \in ScoreValues, s4 \in ScoreValues}

ScoreQuestionnaires ==
    {NoQuestionnaire}
    \cup {[exists |-> TRUE, category |-> c, questions |-> qs] :
            c \in {"quiz", "survey"}, qs \in ScoreQuestionLists}

ScoreAnswerSet ==
    {[questionId |-> id, answer |-> v] :
        id \in {"q1", "q2"}, v \in {Str(OptionIds[1]), Str(OptionIds[2]), Null}}

InitScore ==
    /\ questionnaire \in ScoreQuestionnaires
    /\ response \in {NewResponse(a, Undefined, Undefined, NoString) :
            a \in SeqsUpTo(ScoreAnswerSet, MaxScoreAnswers)}
    /\ responses = <<>>
    /\ analytics = NoAnalytics
    /\ db = EmptyDb
    /\ outcome = NoOutcome
    /\ lastCall = "none"

NextScore == CalculateScore

SpecScore == InitScore /\ [][NextScore]_vars

Categories == {"survey", "quiz", "feedback", "registration", "assessment", "poll"}

\* the scoring data an earlier scoring left on a response
StoredScoring ==
    [set |-> TRUE, totalScore |-> 7, maxScore |-> 7, percentage |-> 100,
     grade |-> "A", passed |-> TRUE,
     questionScores |-> <<[questionId |-> "q1", score |-> 7, maxScore |-> 7,
                           isCorrect |-> TRUE]>>]

\* a questionnaire of every category, or none, and a response that may hold
\* scoring data already
InitCategory ==
    /\ questionnaire \in
          {NoQuestionnaire}
          \cup {[exists |-> TRUE, category |-> c,
                 questions |-> <<ChoiceQuestion("q1", s1, s2)>>] :
                   c \in Categories, s1 \in ScoreValues, s2 \in ScoreValues}
    /\ response \in {[NewResponse(a, Undefined, Undefined, NoString) EXCEPT !.scoring = s] :
            a \in SeqsUpTo(ScoreAnswerSet, MaxScoreAnswers),
            s \in {NoScoring, StoredScoring}}
    /\ responses = <<>>
    /\ analytics = NoAnalytics
    /\ db = EmptyDb
    /\ outcome = NoOutcome
    /\ lastCall = "none"

NextCategory == CalculateScore

SpecCategory == InitCategory /\ [][NextCategory]_vars

MaxResponses == 2

OptionTexts == <<<<"A">>, <<"B">>>>
SampleText == <<"T","h","e"," ","g","o","o","d",","," ","G","o","o","d"," ","d","a","y">>

\* a questionnaire of one choice question and one short text question
ReportQuestions(choiceType) ==
    <<[id |-> "q1", type |-> choiceType, title |-> "q1",
       options |-> <<[id |-> OptionIds[1], text |-> OptionTexts[1], score |-> Undefined],
                     [id |-> OptionIds[2], text |-> OptionTexts[2], score |-> Undefined]>>],
      [id |-> "q2", type |-> "text_short", title |-> "q2", options |-> <<>>]>>

ReportQuestionnaires ==
    {NoQuestionnaire}
    \cup {[exists |-> TRUE, category |-> "survey", questions |-> ReportQuestions(t)] :
            t \in {"multiple_choice", "checkboxes"}}

\* the answers of one stored response: a choice of options or none for q1,
\* a text or none for q2
ReportAnswerLists ==
    {c \o t :
        c \in {<<>>} \cup {<<[questionId |-> "q1", answer |-> v]>> :
                  v \in {Str(OptionTexts[1]), Arr(<<OptionTexts[1], OptionTexts[2]>>)}},
        t \in {<<>>, <<[questionId |-> "q2", answer |-> Str(SampleText)]>>}}

StoredResponse(answers) ==
    [NewResponse(answers, Number(6), Number(2), String(<<"C","h","r","o","m","e">>))
        EXCEPT !.status = "completed"]

InitReport ==
    /\ questionnaire \in ReportQuestionnaires
    /\ response = NewResponse(<<>>, Undefined, Undefined, NoString)
    /\ responses \in SeqsUpTo({StoredResponse(a) : a \in ReportAnswerLists}, MaxResponses)
    /\ analytics = NoAnalytics
    /\ db = EmptyDb
    /\ outcome = NoOutcome
    /\ lastCall = "none"

MaxRatings == 5

\* a rating or scale question with the given validation.max
RatingQuestion(type, max) ==
    [id |-> "q1", type |-> type, title |-> "q1", options |-> <<>>,
     validation |-> [max |-> max]]

RatingMaxes == {Undefined, Number(0), Number(2), Number(5)}
RatingValues == {Null, Num(1), Num(5), Num(6)}

\* one rating question and stored responses that each answer it
InitRating ==
    /\ questionnaire \in
          {[exists |-> TRUE, category |-> "survey",
            questions |-> <<RatingQuestion(t, max)>>] :
              t \in {"rating", "scale"}, max \in RatingMaxes}
    /\ response = NewResponse(<<>>, Undefined, Undefined, NoString)
    /\ responses \in
          SeqsUpTo({StoredResponse(<<[questionId |-> "q1", answer |-> v]>>) :
                        v \in RatingValues}, MaxRatings)
    /\ analytics = NoAnalytics
    /\ db = EmptyDb
    /\ outcome = NoOutcome
    /\ lastCall = "none"

NextRating == GenerateReport

SpecRating == InitRating /\ [][NextRating]_vars

MaxStatResponses == 3

\* a report generated earlier, over two responses that have since left the
\* date range
EarlierReport ==
    [generated |-> TRUE,
     responseStats |-> [total |-> 2, completed |-> 1, abandoned |-> 1,
                        completionRate |-> 50, averageCompletionTime |-> 6,
                        medianCompletionTime |-> 6],
     questionAnalytics |-> <<>>,
     demographics |-> [deviceTypes |-> <<[type |-> "desktop", count |-> 2, percentage |-> 100]>>,
                       browsers |-> <<>>, locations |-> <<>>,
                       languages |-> <<>>, timezones |-> <<>>]]

StatStatuses == {"in_progress", "completed", "abandoned"}
StatTimes == {Undefined, Number(1), Number(10)}

\* a stored response of the given status and completion time
StatResponse(status, completionTime) ==
    [NewResponse(<<>>, completionTime, Undefined, NoString) EXCEPT !.status = status]

\* a new or an earlier generated report, and the responses now in its range
InitStats ==
    /\ questionnaire \in {NoQuestionnaire,
                           [exists |-> TRUE, category |-> "survey", questions |-> <<>>]}
    /\ response = NewResponse(<<>>, Undefined, Undefined, NoString)
    /\ responses \in
          SeqsUpTo({StatResponse(st, t) : st \in StatStatuses, t \in StatTimes},
                   MaxStatResponses)
    /\ analytics \in {NoAnalytics, EarlierReport}
    /\ db = EmptyDb
    /\ outcome = NoOutcome
    /\ lastCall = "none"

NextStats == GenerateReport

SpecStats == InitStats /\ [][NextStats]_vars

MaxDemoResponses == 2

DemoUserAgents ==
    {NoString, String(<<"C","h","r","o","m","e">>),
     String(<<"M","o","b","i","l","e"," ","S","a","f","a","r","i">>)}
DemoLanguages == {NoString, String(<<"e","n">>), String(<<"f","r">>)}
\* no location and time zone recorded, or Kenya's
DemoPlaces ==
    {[country |-> NoString, timezone |-> NoString],
     [country |-> String(<<"K","E">>), timezone |-> String(<<"E","A","T">>)]}

\* a stored response with the given client metadata
DemoResponse(userAgent, language, place) ==
    [NewResponse(<<>>, Undefined, Undefined, userAgent)
        EXCEPT !.status = "completed",
               !.metadata.language = language,
               !.metadata.country = place.country,
               !.metadata.timezone = place.timezone]

InitDemographics ==
    /\ questionnaire = NoQuestionnaire
    /\ response = NewResponse(<<>>, Undefined, Undefined, NoString)
    /\ responses \in
          SeqsUpTo({DemoResponse(ua, l, pl) :
                        ua \in DemoUserAgents, l \in DemoLanguages, pl \in DemoPlaces},
                   MaxDemoResponses)
    /\ analytics = NoAnalytics
    /\ db = EmptyDb
    /\ outcome = NoOutcome
    /\ lastCall = "none"

NextDemographics == GenerateReport

SpecDemographics == InitDemographics /\ [][NextDemographics]_vars

MaxBatch == 3

\* ratings, and a value that is no number
BatchValues == {Num(1), Num(5), Str(<<"a","b","c">>)}

\* one rating question and a batch in which a record may be malformed
InitBatch ==
    /\ questionnaire \in
          {[exists |-> TRUE, category |-> "survey",
            questions |-> <<RatingQuestion(t, max)>>] :
              t \in {"rating", "scale"}, max \in {Undefined, Number(5)}}
    /\ response = NewResponse(<<>>, Undefined, Undefined, NoString)
    /\ responses \in
          SeqsUpTo({StoredResponse(<<[questionId |-> "q1", answer |-> v]>>) :
                        v \in BatchValues}, MaxBatch)
    /\ analytics = NoAnalytics
    /\ db = EmptyDb
    /\ outcome = NoOutcome
    /\ lastCall = "none"

NextBatch == GenerateReport

SpecBatch == InitBatch /\ [][NextBatch]_vars

MaxClock == 3

QuestionnaireIds == {"qn1", "qn2"}
WorkspaceIds == {"w1", "w2"}

\* no realtime record stored yet; the calls come at any later times
InitRealtime ==
    /\ questionnaire = NoQuestionnaire
    /\ response = NewResponse(<<>>, Undefined, Undefined, NoString)
    /\ responses = <<>>
    /\ analytics = NoAnalytics
    /\ db = EmptyDb
    /\ outcome = NoOutcome
    /\ lastCall = "none"

NextRealtime ==
    \E q \in QuestionnaireIds, w \in WorkspaceIds, now \in 0..MaxClock :
        GenerateRealtimeAnalytics(q, w, now)

SpecRealtime == InitRealtime /\ [][NextRealtime]_vars

MaxLogicQuestions == 4

\* a logic rule with one condition, on the emptiness of a question's answer
Rule(action, targetQuestionId, conditionQuestionId, operator) ==
    [conditions |-> <<[questionId |-> conditionQuestionId, operator |-> operator,
                       value |-> Null]>>,
     action |-> action,
     targetQuestionId |-> targetQuestionId,
     isAndCondition |-> TRUE]

\* a visible, required choice question with the given options and rules
LogicQuestion(id, optionIds, logic) ==
    [id |-> id, type |-> "multiple_choice", title |-> id,
     options |-> [k \in 1..Len(optionIds) |->
                     [id |-> optionIds[k], text |-> optionIds[k], score |-> Undefined]],
     isVisible |-> TRUE, required |-> TRUE, logic |-> logic]

LogicOperators == {"is_empty", "is_not_empty"}

\* the question the rules of question i look at: the first question, or
\* the second for the rules of the first
ConditionQuestionOf(i) == QuestionIdAt[IF i = 1 THEN 2 ELSE 1]

ShowAndRequire(i, op) ==
    <<Rule("show", "", ConditionQuestionOf(i), op),
      Rule("require", "", ConditionQuestionOf(i), op)>>

\* the rule lists of question i of n: none, show and require, a skip_to a
\* later question, or both; the last question may skip back to the first
RuleListsOf(i, n, op) ==
    {<<>>, ShowAndRequire(i, op)}
    \cup {<<Rule("skip_to", QuestionIdAt[t], ConditionQuestionOf(i), op)>> \o rest :
            t \in IF i = n THEN {1} ELSE (i + 1)..n,
            rest \in {<<>>, ShowAndRequire(i, op)}}

RECURSIVE LogicQuestionLists(_, _, _)
\* the lists of questions i..n, each with one of its rule lists
LogicQuestionLists(i, n, op) ==
    IF i > n THEN {<<>>}
    ELSE {<<LogicQuestion(QuestionIdAt[i], OptionIds, rl)>> \o rest :
            rl \in RuleListsOf(i, n, op), rest \in LogicQuestionLists(i + 1, n, op)}

\* questionnaires of MaxLogicQuestions questions with rules of one operator
EvaluateSchemas ==
    {[exists |-> TRUE, category |-> "survey", questions |-> qs] :
        qs \in UNION {LogicQuestionLists(1, MaxLogicQuestions, op) : op \in LogicOperators}}

\* questionnaires of three questions with the defects validation looks for:
\* a repeated question id, a repeated option id, a rule that names a
\* missing question or its own, skip_to rules that lead back
DefectSchemas ==
    {[exists |-> TRUE, category |-> "survey",
      questions |-> <<LogicQuestion("q1", o1, r1), LogicQuestion(id2, OptionIds, r2),
                      LogicQuestion("q3", OptionIds, r3)>>] :
        id2 \in {"q1", "q2"},
        o1 \in {OptionIds, <<OptionIds[1], OptionIds[1]>>},
        r1 \in {<<>>,
                <<Rule("show", "", "q9", "is_empty")>>,
                <<Rule("show", "", "q1", "is_empty")>>,
                <<Rule("skip_to", "q9", "q2", "is_empty")>>,
                <<Rule("skip_to", "q1", "q2", "is_empty")>>,
                <<Rule("skip_to", "q2", "q3", "is_empty")>>},
        r2 \in {<<>>,
                <<Rule("skip_to", "q1", "q3", "is_empty")>>,
                <<Rule("skip_to", "q3", "q1", "is_empty")>>},
        r3 \in {<<>>, <<Rule("skip_to", "q1", "q2", "is_empty")>>}}

\* the answers of a session: the first two questions answered or not
LogicAnswers ==
    {<<>>,
     <<[questionId |-> "q1", answer |-> Str(<<"A">>)]>>,
     <<[questionId |-> "q1", answer |-> Str(<<>>)]>>,
     <<[questionId |-> "q2", answer |-> Str(<<"A">>)]>>,
     <<[questionId |-> "q1", answer |-> Str(<<"A">>)],
       [questionId |-> "q2", answer |-> Str(<<"A">>)]>>}

InitLogic ==
    /\ questionnaire \in EvaluateSchemas \cup DefectSchemas
    /\ response \in {NewResponse(a, Undefined, Undefined, NoString) : a \in LogicAnswers}
    /\ responses = <<>>
    /\ analytics = NoAnalytics
    /\ db = EmptyDb
    /\ outcome = NoOutcome
    /\ lastCall = "none"

NextLogic == ValidateSchema \/ Evaluate

SpecLogic == InitLogic /\ [][NextLogic]_vars

NextReport == GenerateReport

SpecReport == InitReport /\ [][NextReport]_vars

MaxMembers == 2

UserIds == {"u1", "u2", "u3", "u4"}
MemberRoles == {"owner", "admin", "editor", "viewer", "guest"}

\* a member as addMember stores it
Member(userId, role) ==
    [user |-> userId, role |-> role, permissions |-> getPermissionsForRole(role),
     invitedBy |-> "u1"]

\* a workspace of owner u1 with no member yet or with its owner as a member,
\* within the limit
Workspaces ==
    {[owner |-> "u1", members |-> ms, subscription |-> [limits |-> [maxMembers |-> limit]]] :
        limit \in 0..MaxMembers,
        ms \in {<<>>, <<Member("u1", "owner")>>}} \ 
    {[owner |-> "u1", members |-> <<Member("u1", "owner")>>,
      subscription |-> [limits |-> [maxMembers |-> 0]]]}

InitWorkspace ==
    /\ questionnaire = NoQuestionnaire
    /\ response = NewResponse(<<>>, Undefined, Undefined, NoString)
    /\ responses = <<>>
    /\ analytics = NoAnalytics
    /\ db \in {[EmptyDb EXCEPT !.workspace = w] : w \in Workspaces}
    /\ outcome = NoOutcome
    /\ lastCall = "none"

NextWorkspace ==
    \/ \E userId \in UserIds, role \in MemberRoles : AddMember(userId, role, "u1")
    \/ \E userId \in UserIds : RemoveMember(userId)
    \/ \E userId \in UserIds, newRole \in MemberRoles : UpdateMemberRole(userId, newRole)

SpecWorkspace == InitWorkspace /\ [][NextWorkspace]_vars

Email1 == <<"a","@","b",".","c">>
Email2 == <<"d","@","b",".","c">>
Password1 == <<"p","a","s","s","w","o","r","d">>
Password2 == <<"q","w","e","r","t","y","1","2","3">>

\* the two registered accounts, with no session yet
TwoUsers ==
    <<NewUser("u1", Email1, BcryptHash(Password1)),
      NewUser("u2", Email2, BcryptHash(Password1))>>

MaxSessions == 2

\* the times of the requests: at once, and after the refresh tokens signed
\* at once have expired
SessionTimes == {0, RefreshLifetime + 1}

\* the refresh tokens stored for the users
StoredRefreshTokens(users) ==
    UNION {{users[i].refreshTokens[k].token : k \in 1..Len(users[i].refreshTokens)} :
              i \in 1..Len(users)}

RECURSIVE SessionCount(_)
\* the number of refresh tokens stored
SessionCount(users) ==
    IF users = <<>> THEN 0 ELSE Len(Head(users).refreshTokens) + SessionCount(Tail(users))

\* the tokens a client may present: those it was issued, a forged one, none
Presentable(history) == Issued(history) \cup {ForgedToken, NoToken}

InitSession ==
    /\ questionnaire = NoQuestionnaire
    /\ response = NewResponse(<<>>, Undefined, Undefined, NoString)
    /\ responses = <<>>
    /\ analytics = NoAnalytics
    /\ db = [EmptyDb EXCEPT !.users = TwoUsers]
    /\ outcome = NoOutcome
    /\ lastCall = "none"

NextSession ==
    \/ \E email \in {Email1, Email2}, password \in {Password1}, now \in SessionTimes :
          SessionCount(db.users) < MaxSessions /\ Login(email, password, now)
    \/ \E accessToken \in {t \in Presentable(db.history) : t.kind \in {"access", "none"}},
          refreshToken \in {t \in Presentable(db.history) : t.kind # "access"},
          now \in SessionTimes :
          Logout(accessToken, refreshToken, now)
    \/ \E refreshToken \in Presentable(db.history), now \in SessionTimes :
          Refresh(refreshToken, now)

SpecSession == InitSession /\ [][NextSession]_vars

MaxAccounts == 2

ShortPassword == <<"s","h","o","r","t">>

\* the values crypto.randomBytes(32).toString('hex') may draw
ResetTokens == {<<"t","1">>, <<"t","2">>}

\* the times of the requests: at once, and after the access tokens and the
\* reset tokens of time 0 have expired
AccountTimes == {0, AccessLifetime + 1}

\* the access tokens a client may present: those issued, a forged one, none
PresentableAccess(history) ==
    {t \in Presentable(history) : t.kind \in {"access", "forged", "none"}}

InitAccount ==
    /\ questionnaire = NoQuestionnaire
    /\ response = NewResponse(<<>>, Undefined, Undefined, NoString)
    /\ responses = <<>>
    /\ analytics = NoAnalytics
    /\ \E owner \in {"", "u2"} :
          db = [EmptyDb EXCEPT !.workspace.owner = owner]
    /\ outcome = NoOutcome
    /\ lastCall = "none"

NextAccount ==
    \/ \E email \in {<<>>, Email1, Email2}, password \in {ShortPassword, Password1},
          now \in AccountTimes :
          Len(db.users) < MaxAccounts /\ Register(email, password, now)
    \/ \E email \in {Email1, Email2}, password \in {Password1, Password2},
          now \in AccountTimes :
          SessionCount(db.users) <= MaxSessions /\ Login(email, password, now)
    \/ \E accessToken \in PresentableAccess(db.history), now \in AccountTimes :
          Profile(accessToken, now)
    \/ \E accessToken \in PresentableAccess(db.history),
          password \in {<<>>, Password1, Password2}, confirmDelete \in {"DELETE", "delete"},
          now \in AccountTimes :
          DeleteAccount(accessToken, password, confirmDelete, now)
    \/ \E email \in {<<>>, Email1, Email2}, resetToken \in ResetTokens,
          now \in AccountTimes :
          ForgotPassword(email, resetToken, now)
    \/ \E token \in ResetTokens \cup {<<>>}, newPassword \in {<<>>, ShortPassword, Password2},
          now \in AccountTimes :
          ResetPassword(token, newPassword, now)

SpecAccount == InitAccount /\ [][NextAccount]_vars

MaxAuditLogs == 2

AuditActions == {"user_delete", "admin_action", "user_login", "questionnaire_update"}

AuditIps ==
    {NoString, String(<<"1","9","2",".","1","6","8",".","1",".","1">>),
     String(<<"1","0",".","0",".","0",".","1">>),
     String(<<"1","1","0",".","0",".","0",".","1">>)}

\* n changed fields named "name"
PlainFields(n) == [i \in 1..n |-> <<"n","a","m","e">>]

\* few, at the threshold and above it, with and without a sensitive field
\* among them
AuditFieldLists ==
    {PlainFields(n) \o extra :
        n \in {0, BulkThreshold - 1, BulkThreshold + 1},
        extra \in {<<>>, <<<<"p","a","s","s","w","o","r","d">>>>,
                   <<<<"o","l","d","e","m","a","i","l">>>>}}

\* no audit entry is stored; entries are then logged
InitAudit ==
    /\ questionnaire = NoQuestionnaire
    /\ response = NewResponse(<<>>, Undefined, Undefined, NoString)
    /\ responses = <<>>
    /\ analytics = NoAnalytics
    /\ db = EmptyDb
    /\ outcome = NoOutcome
    /\ lastCall = "none"

NextAudit ==
    \E action \in AuditActions, ipAddress \in AuditIps, fields \in AuditFieldLists :
        Len(db.auditLogs) < MaxAuditLogs /\ LogAction(action, ipAddress, fields)

SpecAudit == InitAudit /\ [][NextAudit]_vars

-----------------------------------------------------------------------------
(* Properties of performQualityChecks *)

QualityRan == lastCall = "performQualityChecks"

Flags == response.qualityChecks.flags

HasFlag(type, severity) ==
    \E i \in 1..Len(Flags) : Flags[i].type = type /\ Flags[i].severity = severity

\* every answer of the response is the literal string "5"
EveryAnswerIsFive ==
    \A i \in 1..Len(response.answers) : response.answers[i].answer = Str(<<"5">>)

\* C3 (as claimed): a response of five answers, each the literal "5", gets a
\* straight_lining flag from the quality check.
C3_FiveFivesFlagged ==
    (QualityRan /\ Len(response.answers) = 5 /\ EveryAnswerIsFive)
        => HasFlag("straight_lining", "medium")

\* C3 (amended): a response whose answers are all the literal "5" gets a
\* straight_lining flag exactly when it holds six or more answers; five
\* answers "5" in a row are not flagged.
C3_SixFivesFlagged ==
    (QualityRan /\ EveryAnswerIsFive)
        => (HasFlag("straight_lining", "medium") <=> Len(response.answers) >= 6)

C3_Witness ==
    /\ QualityRan
    /\ Len(response.answers) = 6
    /\ EveryAnswerIsFive
    /\ HasFlag("straight_lining", "medium")

\* the string consists of one character repeated across its full length
SingleCharRepeated(s) == \A i \in 1..Len(s) : \A j \in 1..Len(s) : s[i] = s[j]

\* C4 (as claimed): the quality check adds a straight_lining flag of severity
\* medium exactly when the concatenated answer values are longer than 5
\* characters and consist of a single character repeated; otherwise no
\* straight_lining flag is added.
C4_FlagIffSingleCharRepeated ==
    QualityRan =>
        /\ HasFlag("straight_lining", "medium")
              <=> (/\ Len(AnswerPattern(response)) > 5
                   /\ SingleCharRepeated(AnswerPattern(response)))
        /\ ~HasFlag("straight_lining", "low")
        /\ ~HasFlag("straight_lining", "high")

\* C5 (as claimed): with a recorded completion time t (0 included) and n > 0
\* questions, the quality check adds a speeding flag of severity high when
\* t / n < 5 and no speeding flag when t / n >= 5.
C5_SpeedingIffBelowThreshold ==
    (/\ QualityRan
     /\ response.metadata.completionTime.has
     /\ response.progress.totalQuestions.has
     /\ response.progress.totalQuestions.n > 0)
        => /\ HasFlag("speeding", "high")
                <=> response.metadata.completionTime.n
                        < 5 * response.progress.totalQuestions.n
           /\ ~HasFlag("speeding", "low")
           /\ ~HasFlag("speeding", "medium")

Heuristics == {"speeding", "straight_lining", "bot_detected"}

\* C6: after a run of the quality check, isSuspicious is true iff the flag
\* list holds a flag of severity high, and the list holds at most one flag
\* for each of the three heuristics and no other flag.
C6_SuspiciousIffHighFlag ==
    QualityRan =>
        /\ response.qualityChecks.isSuspicious
              <=> (\E i \in 1..Len(Flags) : Flags[i].severity = "high")
        /\ \A i \in 1..Len(Flags) : Flags[i].type \in Heuristics
        /\ \A i \in 1..Len(Flags) : \A j \in 1..Len(Flags) :
              Flags[i].type = Flags[j].type => i = j

\* the three heuristics flag one response at once
C6_Witness ==
    /\ QualityRan
    /\ Len(Flags) = 3
    /\ \A h \in Heuristics : \E i \in 1..Len(Flags) : Flags[i].type = h
    /\ response.qualityChecks.isSuspicious

\* what one run produces from the response's data when no earlier run has
\* left anything behind
AssessedAlone(r) == performQualityChecks([r EXCEPT !.qualityChecks = DefaultQualityChecks])

C30_ProgressAfterSave ==
    lastCall = "save" =>
        /\ response.progress.completedQuestions
              = Cardinality({i \in 1..Len(response.answers) :
                                response.answers[i].answer \notin {Null, Str(<<>>)}})
        /\ response.progress.percentage \in 0..100

-----------------------------------------------------------------------------
(* Properties of calculateScore *)

Scored == lastCall = "calculateScore" /\ response.scoring.set

RECURSIVE SumSeq(_)
\* the sum of a sequence of integers
SumSeq(ns) == IF ns = <<>> THEN 0 ELSE Head(ns) + SumSeq(Tail(ns))

\* the question has at least one option carrying a score
IsScoredQuestion(q) == \E i \in 1..Len(q.options) : q.options[i].score.has

\* the designated correct option: the first option, in declaration order,
\* whose score is defined
DesignatedCorrect(q) ==
    q.options[CHOOSE i \in 1..Len(q.options) :
                 /\ q.options[i].score.has
                 /\ \A j \in 1..(i - 1) : ~q.options[j].score.has]

\* what the answer earns: the designated correct option's score when the
\* answer selects that option, nothing otherwise
EarnedScore(answer) ==
    LET asked == {i \in 1..Len(questionnaire.questions) :
                     questionnaire.questions[i].id = answer.questionId}
    IN IF asked = {} THEN 0
       ELSE LET q == questionnaire.questions[CHOOSE i \in asked : TRUE]
            IN IF IsScoredQuestion(q) /\ answer.answer = Str(DesignatedCorrect(q).id)
               THEN DesignatedCorrect(q).score.n
               ELSE 0

\* C7 (as claimed): the respondent earns the designated correct option's
\* score only when the selected option id is that option's id, and nothing
\* for any other selection; totalScore is the sum of the earned scores.
C7_EarnsOnlyCorrectOption ==
    Scored =>
        response.scoring.totalScore
            = SumSeq([i \in 1..Len(response.answers) |-> EarnedScore(response.answers[i])])

\* C8 (as claimed): maxScore is the sum, over each scored question of the
\* questionnaire counted once, of its designated correct option's score,
\* whatever the answer set.
C8_MaxScoreOverQuestions ==
    Scored =>
        response.scoring.maxScore
            = SumSeq([i \in 1..Len(questionnaire.questions) |->
                        IF IsScoredQuestion(questionnaire.questions[i])
                        THEN DesignatedCorrect(questionnaire.questions[i]).score.n
                        ELSE 0])

\* C9: percentage is totalScore / maxScore * 100 rounded to the nearest
\* integer (halves up) when maxScore > 0, and exactly 0 when maxScore is 0.
C9_PercentageRounded ==
    Scored =>
        LET total == response.scoring.totalScore
            max == response.scoring.maxScore
            p == response.scoring.percentage
        IN /\ p \in Int
           /\ max > 0 => /\ 2 * max * p - max <= 200 * total
                         /\ 200 * total < 2 * max * p + max
           /\ max = 0 => p = 0

\* a percentage that is not a whole number was rounded up
C9_Witness ==
    /\ Scored
    /\ response.scoring.maxScore > 0
    /\ response.scoring.percentage * response.scoring.maxScore
          > 100 * response.scoring.totalScore

\* the letter grade of a percentage
GradeOf(percentage) ==
    IF percentage >= 90 THEN "A"
    ELSE IF percentage >= 80 THEN "B"
    ELSE IF percentage >= 70 THEN "C"
    ELSE IF percentage >= 60 THEN "D"
    ELSE "F"

\* C10 (as claimed): the grade follows the thresholds applied to the
\* result's percentage, and passed is true exactly when
\* totalScore >= 0.6 * maxScore.
C10_GradeOfPercentage ==
    Scored =>
        /\ response.scoring.grade = GradeOf(response.scoring.percentage)
        /\ response.scoring.passed
              <=> 10 * response.scoring.totalScore >= 6 * response.scoring.maxScore

\* C11 (as claimed): calculateScore stores a score result when the
\* questionnaire's category is quiz or assessment; for every other category
\* and for a missing questionnaire it leaves the response's scoring unchanged.
C11_ScoresQuizAndAssessment ==
    [][lastCall' = "calculateScore" =>
          IF questionnaire.exists /\ questionnaire.category \in {"quiz", "assessment"}
          THEN response'.scoring = calculateScore(response, questionnaire)
          ELSE response'.scoring = response.scoring]_vars

\* C24 (as claimed): in every computed score result, passed is true exactly
\* when the grade is not F, also when maxScore is 0 and when option scores
\* are negative.
C24_PassedIffNotF ==
    Scored => (response.scoring.passed <=> response.scoring.grade # "F")

-----------------------------------------------------------------------------
(* Properties of generateReport *)

\* the aggregate a report holds: response stats, per-question analytics and
\* demographics
ReportOutput(a) ==
    [responseStats |-> a.responseStats,
     questionAnalytics |-> a.questionAnalytics,
     demographics |-> a.demographics]

\* C1 (as claimed): generating the report twice for the same questionnaire,
\* date range and unchanged response set yields identical output.
C1_ReportIdempotent ==
    [][(/\ analytics.generated
        /\ lastCall' = "generateReport"
        /\ questionnaire' = questionnaire
        /\ responses' = responses)
          => ReportOutput(analytics') = ReportOutput(analytics)]_vars

\* the number of times the option text is selected by the answers to the
\* question: once by a scalar answer equal to it, once for each occurrence
\* in a list answer
Selections(rs, questionId, text) ==
    SumSeq([i \in 1..Len(rs) |->
        IF ~HasAnswerTo(rs[i], questionId) THEN 0
        ELSE LET v == AnswerTo(rs[i], questionId)
             IN IF v.kind = "string" THEN (IF v.chars = text THEN 1 ELSE 0)
                ELSE IF v.kind = "array" THEN Occurrences(v.items, text)
                ELSE 0])

\* C2 (as claimed): for every choice question and each of its options, the
\* optionCounts entry equals the number of times the option was selected
\* across the batch's responses.
C2_OptionCountsAreSelections ==
    (lastCall = "generateReport" /\ questionnaire.exists) =>
        \A i \in 1..Len(questionnaire.questions) :
            questionnaire.questions[i].type \in {"multiple_choice", "checkboxes"} =>
                \A k \in 1..Len(questionnaire.questions[i].options) :
                    analytics.questionAnalytics[i].analytics.optionCounts[
                            questionnaire.questions[i].options[k].text]
                        = Selections(responses, questionnaire.questions[i].id,
                                     questionnaire.questions[i].options[k].text)

\* the number of responses whose answer to the question is the number k
RatingsEqual(rs, questionId, k) ==
    Cardinality({i \in 1..Len(rs) :
                    HasAnswerTo(rs[i], questionId) /\ AnswerTo(rs[i], questionId) = Num(k)})

\* the distribution of every rating or scale question has exactly the
\* buckets 1..MaxOf(question), each holding the number of answers equal to it
DistributionOver(MaxOf(_)) ==
    (lastCall = "generateReport" /\ questionnaire.exists) =>
        \A i \in 1..Len(questionnaire.questions) :
            questionnaire.questions[i].type \in {"rating", "scale"} =>
                LET q == questionnaire.questions[i]
                    distribution == analytics.questionAnalytics[i].analytics.distribution
                IN /\ DOMAIN distribution = 1..MaxOf(q)
                   /\ \A k \in 1..MaxOf(q) :
                         distribution[k] = RatingsEqual(responses, q.id, k)

DeclaredMax(q) == IF q.validation.max.has THEN q.validation.max.n ELSE 5
NonZeroDeclaredMax(q) ==
    IF q.validation.max.has /\ q.validation.max.n # 0 THEN q.validation.max.n ELSE 5

\* C13 (as claimed): for every rating/scale question the distribution has
\* exactly one bucket for each integer from 1 to the declared max (5 when no
\* max is declared), and each bucket holds the number of answers equal to
\* that integer.
C13_BucketsToDeclaredMax == DistributionOver(DeclaredMax)

\* C13 (amended): for every rating/scale question the distribution has
\* exactly one bucket for each integer from 1 to the declared max, 5 standing
\* in when no max is declared or the declared max is 0, and each bucket holds
\* the number of answers equal to that integer.
C13_BucketsToNonZeroMax == DistributionOver(NonZeroDeclaredMax)

\* max = 5 and answers [1,1,1,1,5] give {1:4, 2:0, 3:0, 4:0, 5:1}, average 1.80
C13_Witness ==
    /\ lastCall = "generateReport"
    /\ questionnaire.questions[1].validation.max = Number(5)
    /\ [i \in 1..Len(responses) |-> responses[i].answers[1].answer]
          = <<Num(1), Num(1), Num(1), Num(1), Num(5)>>
    /\ analytics.questionAnalytics[1].analytics.distribution = <<4, 0, 0, 0, 1>>
    /\ analytics.questionAnalytics[1].analytics.average = Finite(180)

\* C25 (as claimed): for every rating/scale question the bucket counts sum to
\* the number of ratings that enter average, min and max, and min and max lie
\* within 1..max (5 when none is declared) when at least one rating exists.
C25_DistributionCoversRatings ==
    (lastCall = "generateReport" /\ questionnaire.exists) =>
        \A i \in 1..Len(questionnaire.questions) :
            questionnaire.questions[i].type \in {"rating", "scale"} =>
                LET q == questionnaire.questions[i]
                    a == analytics.questionAnalytics[i].analytics
                    ratings == RatingsOf(responses, q.id)
                IN /\ SumSeq(a.distribution) = Len(ratings)
                   /\ ratings # <<>> =>
                         /\ ~a.min.nan /\ a.min.n \in 1..NonZeroDeclaredMax(q)
                         /\ ~a.max.nan /\ a.max.n \in 1..NonZeroDeclaredMax(q)

\* the number of stored responses of the status
WithStatus(status) == Cardinality({i \in 1..Len(responses) : responses[i].status = status})

\* C14 (as claimed): after every computation of the response stats, whatever
\* the report held before, total is the number of responses in the range,
\* completed and abandoned are the numbers of those statuses, and
\* completionRate is round(completed / total * 100), 0 when total is 0, also
\* when the range holds no responses.
C14_StatsOfRange ==
    lastCall = "generateReport" =>
        LET stats == analytics.responseStats
        IN /\ stats.total = Len(responses)
           /\ stats.completed = WithStatus("completed")
           /\ stats.abandoned = WithStatus("abandoned")
           /\ stats.total > 0 =>
                 /\ 2 * stats.total * stats.completionRate - stats.total
                       <= 200 * stats.completed
                 /\ 200 * stats.completed
                       < 2 * stats.total * stats.completionRate + stats.total
           /\ stats.total = 0 => stats.completionRate = 0

\* the recorded completion times of the batch, as the set of their positions
Timed == {i \in 1..Len(responses) : responses[i].metadata.completionTime.has}
TimeOf(i) == responses[i].metadata.completionTime.n

\* m is a median of the recorded times: at least half of them are at most
\* m and at least half are at least m
IsMedian(m) ==
    /\ 2 * Cardinality({i \in Timed : TimeOf(i) <= m}) >= Cardinality(Timed)
    /\ 2 * Cardinality({i \in Timed : TimeOf(i) >= m}) >= Cardinality(Timed)

\* C15 (as claimed): the report's medianCompletionTime is the median of the
\* recorded per-response completion times of the batch.
C15_MedianOfTimes ==
    (lastCall = "generateReport" /\ Timed # {}) =>
        IsMedian(analytics.responseStats.medianCompletionTime)

\* the value each stored response has in a dimension, [has |-> FALSE] when
\* it has none
DeviceTypeValues == [i \in 1..Len(responses) |-> [has |-> TRUE, v |-> DeviceType(responses[i])]]
BrowserValues ==
    [i \in 1..Len(responses) |->
        [has |-> responses[i].metadata.userAgent.has,
         v |-> parseBrowser(responses[i].metadata.userAgent.chars)]]
FieldValues(field) ==
    [i \in 1..Len(responses) |->
        [has |-> TruthyString(responses[i].metadata[field]),
         v |-> responses[i].metadata[field].chars]]

\* each group's count is the number of responses with its value, and its
\* percentage is round(count / number of responses * 100)
GroupsOfResponseSet(groups, values) ==
    \A g \in 1..Len(groups) :
        /\ groups[g].count
              = Cardinality({i \in 1..Len(values) : values[i].has /\ values[i].v = groups[g].type})
        /\ 2 * Len(responses) * groups[g].percentage - Len(responses)
              <= 200 * groups[g].count
        /\ 200 * groups[g].count
              < 2 * Len(responses) * groups[g].percentage + Len(responses)

\* C16 (as claimed): for every demographic dimension, each group's count is
\* the number of responses with that value and its percentage is
\* round(count / number of responses in the response set * 100), also when
\* some responses lack a value for the dimension.
C16_PercentagesOfResponseSet ==
    (lastCall = "generateReport" /\ responses # <<>>) =>
        /\ GroupsOfResponseSet(analytics.demographics.deviceTypes, DeviceTypeValues)
        /\ GroupsOfResponseSet(analytics.demographics.browsers, BrowserValues)
        /\ GroupsOfResponseSet(analytics.demographics.locations, FieldValues("country"))
        /\ GroupsOfResponseSet(analytics.demographics.languages, FieldValues("language"))
        /\ GroupsOfResponseSet(analytics.demographics.timezones, FieldValues("timezone"))

\* the record answers the rating question with a number or with nothing
WellFormed(r) ==
    \A i \in 1..Len(r.answers) : r.answers[i].answer.kind \in {"number", "null"}

\* C17 (as claimed): when a batch holds a malformed record (a non-numeric
\* value for a rating question), the report is still produced and the
\* statistics of each rating question are those of the well-formed records,
\* the same as if the malformed record were absent.
C17_MalformedSkipped ==
    (lastCall = "generateReport" /\ questionnaire.exists) =>
        \A i \in 1..Len(questionnaire.questions) :
            analytics.questionAnalytics[i].analytics
                = calculateQuestionTypeAnalytics(
                      questionnaire.questions[i],
                      ResponsesAnswering(SelectSeq(responses, WellFormed),
                                         questionnaire.questions[i].id))

-----------------------------------------------------------------------------
(* Properties of generateRealtimeAnalytics *)

\* C18 (as claimed): however often the realtime analytics of a questionnaire
\* are generated, the stored realtime records are those of the first
\* invocation: no call adds a further record for the questionnaire.
C18_OneRealtimeRecord ==
    \A q \in QuestionnaireIds :
        Cardinality({a \in db.analytics :
                        a.questionnaire = q /\ a.reportType = "realtime"}) <= 1

-----------------------------------------------------------------------------
(* Properties of evaluate and validateSchema *)

Evaluated == lastCall = "evaluate" /\ outcome.kind = "EvaluationState"

\* question k lies strictly between question i and the target of its rule
Between(i, k, rule) ==
    \E t \in 1..Len(questionnaire.questions) :
        /\ questionnaire.questions[t].id = rule.targetQuestionId
        /\ i < k /\ k < t

\* the skip_to rules of question i whose conditions hold
HoldingSkips(i) ==
    {r \in 1..Len(questionnaire.questions[i].logic) :
        /\ questionnaire.questions[i].logic[r].action = "skip_to"
        /\ RuleHolds(questionnaire.questions[i].logic[r], response.answers)}

\* C19 (as claimed): for every skip_to rule whose conditions hold, evaluate
\* returns every question strictly between the rule's owning question and
\* its target with reachable, visible and required all false, whatever show
\* or require rule also matches for those questions.
C19_SkipWins ==
    Evaluated =>
        \A i \in 1..Len(questionnaire.questions) : \A r \in HoldingSkips(i) :
            \A k \in 1..Len(questionnaire.questions) :
                Between(i, k, questionnaire.questions[i].logic[r])
                    => outcome.state[k] = Unreachable

\* C19 (amended): for every skip_to rule whose conditions hold and whose
\* owning question is itself reachable, evaluate returns every question
\* strictly between the owning question and the target with reachable,
\* visible and required all false, whatever show or require rule also
\* matches for those questions.
C19_SkipOfReachableOwnerWins ==
    Evaluated =>
        \A i \in 1..Len(questionnaire.questions) : \A r \in HoldingSkips(i) :
            outcome.state[i].reachable =>
                \A k \in 1..Len(questionnaire.questions) :
                    Between(i, k, questionnaire.questions[i].logic[r])
                        => outcome.state[k] = Unreachable

\* a skip passed over a question whose own show and require rules matched
C19_Witness ==
    /\ Evaluated
    /\ \E i \in 1..Len(questionnaire.questions) : \E r \in HoldingSkips(i) :
          \E k \in 1..Len(questionnaire.questions) :
              /\ outcome.state[i].reachable
              /\ Between(i, k, questionnaire.questions[i].logic[r])
              /\ \E s \in 1..Len(questionnaire.questions[k].logic) :
                    /\ questionnaire.questions[k].logic[s].action = "show"
                    /\ RuleHolds(questionnaire.questions[k].logic[s], response.answers)
              /\ outcome.state[k] = Unreachable

\* question j is the target of a skip_to rule of question i
SkipEdge(i, j) ==
    \E r \in 1..Len(questionnaire.questions[i].logic) :
        /\ questionnaire.questions[i].logic[r].action = "skip_to"
        /\ questionnaire.questions[i].logic[r].targetQuestionId = questionnaire.questions[j].id

\* the skip_to targets form a cycle: a closed path of skip_to edges
SkipTargetsCycle ==
    \E p \in UNION {[1..l -> 1..Len(questionnaire.questions)] :
                        l \in 2..(Len(questionnaire.questions) + 1)} :
        /\ p[1] = p[Len(p)]
        /\ \A x \in 1..(Len(p) - 1) : SkipEdge(p[x], p[x + 1])

\* an id names one of the questionnaire's questions
Existing(id) == \E i \in 1..Len(questionnaire.questions) : questionnaire.questions[i].id = id

\* the schema has one of the defects validation is to report
Defective ==
    LET qs == questionnaire.questions
    IN \/ \E i \in 1..Len(qs) : \E j \in 1..Len(qs) : i # j /\ qs[i].id = qs[j].id
       \/ \E i \in 1..Len(qs) : \E k \in 1..Len(qs[i].options) : \E l \in 1..Len(qs[i].options) :
             k # l /\ qs[i].options[k].id = qs[i].options[l].id
       \/ \E i \in 1..Len(qs) : \E r \in 1..Len(qs[i].logic) :
             \/ \E c \in 1..Len(qs[i].logic[r].conditions) :
                   \/ ~Existing(qs[i].logic[r].conditions[c].questionId)
                   \/ qs[i].logic[r].conditions[c].questionId = qs[i].id
             \/ /\ qs[i].logic[r].action = "skip_to"
                /\ \/ ~Existing(qs[i].logic[r].targetQuestionId)
                   \/ qs[i].logic[r].targetQuestionId = qs[i].id
       \/ SkipTargetsCycle

\* C20: validateSchema reports a SchemaError, and no evaluation runs against
\* the schema, whenever question ids are not unique, option ids are not
\* unique within a question, a condition's questionId or a skip_to target
\* names no existing question, a rule references its own owning question,
\* or the skip_to targets form a cycle.
C20_DefectiveSchemaRejected ==
    (lastCall \in {"validateSchema", "evaluate"} /\ Defective) =>
        /\ outcome.kind = "SchemaErrors"
        /\ outcome.errors # {}

\* a schema whose skip_to targets form a cycle was handed to evaluate
C20_Witness ==
    /\ lastCall = "evaluate"
    /\ SkipTargetsCycle
    /\ outcome.kind = "SchemaErrors"
    /\ "skip_cycle" \in outcome.errors

-----------------------------------------------------------------------------
(* Properties of assessRisk *)

RiskRank(level) ==
    CASE level = "low" -> 0 [] level = "medium" -> 1 [] level = "high" -> 2
      [] level = "critical" -> 3

\* C29 (as claimed): every stored audit entry of a high-risk action has risk
\* level high, whatever its IP address and changed fields, and each of the
\* later checks (suspicious IP, bulk action, sensitive fields) keeps or raises
\* the level the earlier ones set.
C29_HighRiskStaysHigh ==
    \A i \in 1..Len(db.auditLogs) :
        LET log == db.auditLogs[i]
            afterAction == RiskOfAction(log.action)
            afterIp == RiskAfterIp(afterAction, log.metadata.ipAddress)
            afterBulk == RiskAfterBulk(afterIp, log.changes.fields)
        IN /\ log.action \in HighRiskActions => log.risk.level = "high"
           /\ RiskRank(afterIp) >= RiskRank(afterAction)
           /\ RiskRank(afterBulk) >= RiskRank(afterIp)
           /\ RiskRank(log.risk.level) >= RiskRank(afterBulk)

-----------------------------------------------------------------------------
(* Properties of the Workspace member methods *)

Members == db.workspace.members
MemberLimit == db.workspace.subscription.limits.maxMembers

\* no user appears twice in the members and the members are within the limit
MembersWithinLimit(w) ==
    /\ \A i, j \in 1..Len(w.members) : w.members[i].user = w.members[j].user => i = j
    /\ Len(w.members) <= w.subscription.limits.maxMembers

\* the call the step makes is one the methods must reject: adding a user who
\* is a member, adding at the limit, removing the owner, updating a user who
\* is no member
MustReject ==
    \/ /\ outcome'.method = "addMember"
       /\ \/ \E i \in 1..Len(Members) : Members[i].user = outcome'.userId
          \/ Len(Members) >= MemberLimit
    \/ outcome'.method = "removeMember" /\ outcome'.userId = db.workspace.owner
    \/ /\ outcome'.method = "updateMemberRole"
       /\ \A i \in 1..Len(Members) : Members[i].user # outcome'.userId

\* C26: after every call of addMember, removeMember and updateMemberRole no
\* user appears twice in members and the members do not exceed
\* subscription.limits.maxMembers, and a call that must be rejected raises an
\* error and leaves members unchanged.
C26_MembersDistinctWithinLimit ==
    [][/\ MembersWithinLimit(db'.workspace)
       /\ MustReject => (outcome'.kind = "error" /\ db'.workspace.members = Members)
       /\ outcome'.kind = "error" => db'.workspace = db.workspace]_vars

\* an addMember for a user who is a member was rejected at a full workspace
C26_Witness ==
    /\ outcome.kind = "error"
    /\ outcome.message = "User is already a member of this workspace"
    /\ Len(Members) = MemberLimit
    /\ Len(Members) >= 2
    /\ \E i \in 1..Len(Members) : Members[i].user = outcome.userId

-----------------------------------------------------------------------------
(* Properties of the authentication routes *)

\* the refresh tokens of the user other than the token, in their order
OtherTokens(user, token) == SelectSeq(user.refreshTokens, LAMBDA t : t.token # token)

ValidRefreshToken(users, token, now) ==
    /\ token.kind = "refresh"
    /\ now < token.iat + RefreshLifetime
    /\ \E i \in 1..Len(users) :
          /\ users[i].id = token.userId
          /\ \E k \in 1..Len(users[i].refreshTokens) :
                /\ users[i].refreshTokens[k].token = token
                /\ users[i].refreshTokens[k].expiresAt >= now

\* C23 (as claimed): a refresh with a valid refresh token R succeeds, issues
\* a replacement refresh token and removes R, and no refresh succeeds with a
\* token an earlier refresh has accepted.
C23_RefreshRotates ==
    [][lastCall' = "refresh" =>
          /\ ValidRefreshToken(db.users, outcome'.presented, db'.clock)
                => /\ outcome'.status = 200
                   /\ outcome'.refreshToken \notin {NoToken, outcome'.presented}
                   /\ outcome'.presented \notin StoredRefreshTokens(db'.users)
          /\ [route |-> "refresh", presented |-> outcome'.presented] \in db.history
                => outcome'.status # 200]_vars

\* the users without the account of email
Unregistered(users, email) == SelectSeq(users, LAMBDA u : u.email # ToLowerCase(email))

\* C22: forgot-password answers a request that names an email as it answers
\* the same request when no account has that email: the same status, error
\* and message (200 and the generic message).
C22_ForgotRevealsNothing ==
    [][lastCall' = "forgotPassword" =>
          LET other == forgotPassword(Unregistered(db.users, outcome'.email),
                                      outcome'.email, <<>>, db'.clock).response
          IN /\ outcome'.status = other.status
             /\ outcome'.error = other.error
             /\ outcome'.message = other.message]_vars

\* the account is soft-deleted
Deleted(user) == ~user.isActive

\* email is the old or the renamed email of a soft-deleted account
EmailOfDeleted(users, email) ==
    \E i \in 1..Len(users) :
       /\ Deleted(users[i])
       /\ \/ users[i].email = ToLowerCase(email)
          \/ \E t \in AccountTimes : users[i].email = DeletedEmail(ToLowerCase(email), t)

\* the request passes authenticate, carries the account's password and the
\* confirmation, and the account owns no workspace
ValidDeletion(users, workspace, accessToken, password, confirmDelete, now) ==
    LET auth == authenticate(users, accessToken, now)
    IN /\ auth.user # 0
       /\ BcryptCompare(password, users[auth.user].password)
       /\ confirmDelete = "DELETE"
       /\ workspace.owner # users[auth.user].id

====
